---- MODULE Spec2Model ----
(***************************************************************************)
(* Optimistic-update / polling / reconciliation layer of the zlend         *)
(* dashboard.  Dashboard owns the pending lists and the two balance        *)
(* ledgers; YourLends / YourBorrows own the active positions and the       *)
(* pending-operation polling effects; AssetsToLend owns pollTokenBalance;  *)
(* AssetsToBorrow owns the lending totals.  A step of the model is one     *)
(* task of the browser event loop: a handler running from a click to its   *)
(* await, the continuation of a settled promise, or a timer callback.      *)
(* The chain and the wallet are the environment.                           *)
(***************************************************************************)
EXTENDS Integers, Sequences, FiniteSets, TLC

\* ---------------------------------------------------------------- bounds
MaxOps     == 2        \* clicks of the user in one run
MaxLoopOps == 1        \* clicks of the user in one run (loop specs)
MaxTime    == 300000   \* horizon of the client clock, in ms
ClockStep  == 100000   \* granularity with which the client clock advances
Amounts    == {1, 2}   \* amounts (smallest unit) the user may enter
\* (token, amount, collateral amount, collateral token) the user may enter
\* for a borrow
BorrowInputs == {<<"vUSDG", 1, 2, "wALEO">>, <<"vUSDG", 1, 1, "wALEO">>,
                 <<"vUSDG", 2, 2, "wALEO">>, <<"vUSDG", 1, 2, "vUSDQ">>}
\* (token, amount) the user may enter for a lend
LendInputs == {<<"vUSDG", 1>>, <<"vUSDG", 2>>, <<"vUSDQ", 1>>}
MaxCalls   == 1        \* handlers suspended before the wallet answered

\* ------------------------------------------------------ program constants
TIMEOUT_MS    == 180000  \* Date.now() - startTime > 180000
POLL_MS       == 5000    \* setTimeout(poll, 5000)
FIRST_POLL_MS == 1000    \* setTimeout(() => pollTokenBalance(...), 1000)
WRAP_ALEO_MS  == 2000    \* setTimeout(() => pollTokenBalance('ALEO', ...), 2000)
WRAP_WALEO_MS == 3000    \* setTimeout(() => pollTokenBalance(WALEO...), 3000)
ERROR_MS      == 3000    \* setTimeout(() => { setError(null); }, 3000)

Tokens   == {"ALEO", "wALEO", "vUSDG", "vETE", "vUSDQ"}
Sections == {"lend", "borrow"}
Kinds    == {"lend", "borrow", "transfer", "wrap", "unwrap", "redeem", "repay"}
NoId     == 0

\* What the account holds when the dashboard is opened.
InitPrivate == [t \in Tokens |->
                 IF t = "vETE" THEN 0 ELSE 2]
InitPublic  == [t \in Tokens |-> IF t = "vUSDG" THEN 2 ELSE 0]
InitTotals  == [supplied |-> 4, borrowed |-> 1]

VARIABLES
  now,               \* Date.now()
  budget,            \* clicks the user still makes in this run
  ops,               \* log of the transactions the wallet accepted, by id
  reflected,         \* ids of the accepted transactions the chain executed
  chainPrivate,      \* authoritative private balance per token (records)
  chainPublic,       \* authoritative public balance per token (mappings)
  chainTotals,       \* authoritative supplied_total / borrowed_total
  unspentRecs,       \* lend receipts / LoanPrivate records listed unspent
  recTs,             \* on-chain timestamp of the record of each transaction
  privateBalances,   \* Dashboard state (displayed private ledger)
  publicBalances,    \* Dashboard state (displayed public ledger)
  pendingLends,      \* Dashboard state: pending lends, in order
  pendingBorrows,    \* Dashboard state: pending borrows, in order
  lends,             \* YourLends state: record ids of the active lends
  activeBorrows,     \* YourBorrows state: loan ids of the active borrows
  lendingTotals,     \* AssetsToBorrow state
  optimisticAvailableRef, \* AssetsToBorrow ref ("null" or a number)
  lastBorrowAmountRef,    \* AssetsToBorrow ref ("null" or a number)
  inProgress,        \* isLending, isBorrowing, isTransferring, isWrapping,
                     \* isRedeeming (YourLends), isRedeeming (YourBorrows)
  errorMsg,          \* lendError, borrowError, transferError, wrapError,
                     \* error (YourLends), error (YourBorrows)
  errorTimer,        \* the timer of the effect on [error] of YourLends and
                     \* YourBorrows: when it is due, or null
  calls,             \* handlers suspended at an await before the wallet
                     \* answered requestTransaction
  submitted,         \* number of requestTransaction calls made so far
  mounted,           \* the four dashboard sections are mounted
  pollingTimeoutRef, \* AssetsToLend ref: the timer it would clear
  polls,             \* every poll closure: awaiting a response or a timer
  matched,           \* history: <<pending id, record id>> per confirmation
  utilCall,          \* the call of a utility function being evaluated
  utilResult         \* what that call returned or threw

chainVars  == <<reflected, chainPrivate, chainPublic, chainTotals,
                unspentRecs, recTs>>
ledgerVars == <<privateBalances, publicBalances>>
posVars    == <<pendingLends, pendingBorrows, lends, activeBorrows>>
totVars    == <<lendingTotals, optimisticAvailableRef, lastBorrowAmountRef>>
uiVars     == <<inProgress, errorMsg, errorTimer>>
utilVars   == <<utilCall, utilResult>>

vars == <<now, budget, ops, chainVars, ledgerVars, posVars, totVars, uiVars,
          calls, submitted, mounted, pollingTimeoutRef, polls, matched,
          utilVars>>

\* ------------------------------------------------------------- helpers
RECURSIVE SeqFilterOut(_, _)
\* Array.prototype.filter(x => x !== e)
SeqFilterOut(s, e) ==
  IF s = <<>> THEN <<>>
  ELSE IF Head(s) = e THEN SeqFilterOut(Tail(s), e)
       ELSE <<Head(s)>> \o SeqFilterOut(Tail(s), e)

SeqToSet(s) == {s[i] : i \in 1..Len(s)}

RECURSIVE InsertDesc(_, _, _)
\* [...prev, x].sort((a, b) => b.timestamp - a.timestamp): the sort is
\* stable, so x lands behind every entry whose timestamp is >= its own.
InsertDesc(s, x, ts) ==
  IF s = <<>> THEN <<x>>
  ELSE IF ts[Head(s)] >= ts[x] THEN <<Head(s)>> \o InsertDesc(Tail(s), x, ts)
       ELSE <<x>> \o s

RECURSIVE SumAmt(_, _)
\* reduce((total, x) => total + x.amount, BigInt(0))
SumAmt(s, o) == IF s = <<>> THEN 0 ELSE o[Head(s)].amt + SumAmt(Tail(s), o)

\* prev[tokenId] || BigInt(0)
Get(b, t) == IF t \in DOMAIN b THEN b[t] ELSE 0

\* { ...prev, [tokenId]: v }
Put(b, t, v) == [x \in (DOMAIN b) \cup {t} |-> IF x = t THEN v ELSE b[x]]

\* The ledger a full balance load produces: getPrivateBalances creates a key
\* only for tokens that have an unspent record; the public ledger gets a key
\* for every supported token and wALEO.
LoadedPrivate(cp) == [t \in {x \in Tokens : cp[x] > 0} |-> cp[t]]
LoadedPublic(cp)  == [t \in Tokens |-> cp[t]]

(***************************************************************************)
(* formatUtils.ts: formatBalance.  Text is a sequence of one-character     *)
(* strings; slice and padStart are the String methods the code calls.      *)
(***************************************************************************)
FMT_DIGITS  == 4       \* decimal.slice(0, 4)
MaxDecimals == 6       \* largest token precision drawn
MaxRaw      == 40      \* raw balances 0..MaxRaw are drawn, next to samples

DigitChars == <<"0", "1", "2", "3", "4", "5", "6", "7", "8", "9">>

\* BigInt.prototype.toString() of a non-negative value.
RECURSIVE toString(_)
toString(n) ==
  IF n < 10 THEN <<DigitChars[n + 1]>>
  ELSE Append(toString(n \div 10), DigitChars[(n % 10) + 1])

\* s.slice(start, end): a negative index counts from the end of s, and both
\* are clamped to 0..s.length (s.slice(start) is slice(s, start, Len(s))).
slice(s, start, end) ==
  LET Clamp(i) == IF i < 0 THEN (IF Len(s) + i < 0 THEN 0 ELSE Len(s) + i)
                  ELSE IF i > Len(s) THEN Len(s) ELSE i
  IN  SubSeq(s, Clamp(start) + 1, Clamp(end))

\* s.padStart(d, "0")
padStart(s, d) ==
  IF Len(s) >= d THEN s ELSE [i \in 1..(d - Len(s)) |-> "0"] \o s

ZeroText == <<"0", ".", "0", "0", "0", "0">>

\* The same function without the padStart call.
formatBalanceNoPad(balance, decimals) ==
  IF balance = 0 THEN ZeroText
  ELSE LET balanceStr       == toString(balance)
           head             == slice(balanceStr, 0, -decimals)
           whole            == IF head = <<>> THEN <<"0">> ELSE head
           decimal          == slice(balanceStr, -decimals, Len(balanceStr))
           formattedDecimal == slice(decimal, 0, FMT_DIGITS)
       IN  whole \o <<".">> \o formattedDecimal

\* formatBalance(balance, decimals); !balance holds for 0n (and undefined).
formatBalance(balance, decimals) ==
  IF balance = 0 THEN ZeroText
  ELSE LET balanceStr       == toString(balance)
           head             == slice(balanceStr, 0, -decimals)
           whole            == IF head = <<>> THEN <<"0">> ELSE head
           decimal          == padStart(slice(balanceStr, -decimals,
                                              Len(balanceStr)), decimals)
           formattedDecimal == slice(decimal, 0, FMT_DIGITS)
       IN  whole \o <<".">> \o formattedDecimal

FormatCalls ==
  {[fn |-> "formatBalance", balance |-> b, decimals |-> d] :
     b \in (0..MaxRaw) \cup {9999, 10000, 10001, 99999, 100000, 123456,
                             999999, 1000000, 1234567, 9999999, 10000000,
                             1234567890},
     d \in FMT_DIGITS..MaxDecimals}

(***************************************************************************)
(* balanceUtils.ts / lendingUtils.ts: the readers.  A reply is how the RPC *)
(* endpoint answers one read:                                              *)
(*   "hash"      hashStruct rejects before the fetch                       *)
(*   "network"   fetch rejects                                             *)
(*   "badjson"   response.json() rejects                                   *)
(*   "error"     the body carries data.error                               *)
(*   "null"      data.result is null                                       *)
(*   "nonstring" data.result is not a string (result.match is no function) *)
(*   "garbage"   data.result is a string the pattern does not match        *)
(*   "value"     data.result carries the number val in the expected form   *)
(***************************************************************************)
MaxReply == 2    \* values 0..MaxReply are drawn for a well-formed reply

RpcReplies ==
  {[cls |-> k, val |-> 0] : k \in {"hash", "network", "badjson", "error",
                                   "null", "nonstring", "garbage"}}
  \cup {[cls |-> "value", val |-> v] : v \in 0..MaxReply}

\* How a function body ends: by throwing an Error with message msg, or by
\* returning val.
Throw(m)  == [thrown |-> TRUE, val |-> 0, msg |-> m]
Thrown    == Throw("TypeError")
Return(v) == [thrown |-> FALSE, val |-> v, msg |-> ""]

\* try { body } catch { return dflt } with the catch left out.
CatchRethrow(outcome, dflt) == outcome

\* try { body } catch (error) { console.error(...); return dflt }
Catch(outcome, dflt) == IF outcome.thrown THEN Return(dflt) ELSE outcome

\* The body shared by the four single-value readers: hash the key, fetch,
\* test data.error || data.result == null, match; val is the number matched.
ReadValueBody(r) ==
  IF r.cls \in {"hash", "network", "badjson"} THEN Thrown
  ELSE IF r.cls \in {"error", "null"} THEN Return(0)
  ELSE IF r.cls = "nonstring" THEN Thrown
  ELSE IF r.cls = "value" THEN Return(r.val)
  ELSE Return(0)

getPublicBalance(r)  == Catch(ReadValueBody(r), 0)
getAleoBalance(r)    == Catch(ReadValueBody(r), 0)
getLendingRewards(r) == Catch(ReadValueBody(r), 0)

\* getLendingAPY returns Number(match[1]) / 100, kept here as the pair
\* <<numerator, denominator>>.
getLendingAPY(r) ==
  Catch(LET o == ReadValueBody(r)
        IN  IF o.thrown THEN Thrown ELSE Return(<<o.val, 100>>),
        <<0, 100>>)

\* getLendingTotals: two reads, each result?.match(...) ? BigInt(...) : 0.
getLendingTotals(rs, rb) ==
  LET TotalField(r) ==
        IF r.cls \in {"network", "badjson", "nonstring"} THEN Thrown
        ELSE IF r.cls = "value" THEN Return(r.val)
        ELSE Return(0)
      s == TotalField(rs)
      b == TotalField(rb)
  IN  Catch(IF s.thrown \/ b.thrown THEN Thrown
            ELSE Return([supplied |-> s.val, borrowed |-> b.val]),
            [supplied |-> 0, borrowed |-> 0])

\* getPublicLoanDetails(loanId, programId).  loanId is "valid" (matches
\* /(\d+)u32/), "invalid" (a string that does not) or "nonstring"; a
\* "garbage" reply is a payload that lacks one of the seven fields.
NoLoan == [found |-> FALSE, id_public |-> 0, borrowed_amount |-> 0]

getPublicLoanDetails(loanId, r) ==
  Catch(IF loanId = "nonstring" THEN Thrown
        ELSE IF loanId = "invalid" THEN Return(NoLoan)
        ELSE IF r.cls \in {"network", "badjson"} THEN Thrown
        ELSE IF r.cls \in {"error", "null"} THEN Return(NoLoan)
        ELSE IF r.cls = "nonstring" THEN Thrown
        ELSE IF r.cls # "value" THEN Thrown  \* 'Failed to parse loan ...'
        ELSE Return([found |-> TRUE, id_public |-> r.val,
                     borrowed_amount |-> r.val]),
        NoLoan)

(***************************************************************************)
(* The wallet's answer to requestRecords(programId): it rejects, or it     *)
(* returns a list of records.  A record's data is "ok", "noid" (no         *)
(* id_public), "badid" (id_public is not of the form <n>u32) or            *)
(* "malformed" (a field the reader reads is missing); details is how the   *)
(* endpoint answers the loans_public read for that record.                 *)
(***************************************************************************)
MaxRecs == 1     \* longest record list one program returns

LendRecs ==
  {[recordName |-> "avUSDG", spent |-> FALSE, data |-> "ok"],
   [recordName |-> "avUSDG", spent |-> TRUE, data |-> "ok"],
   [recordName |-> "avUSDG", spent |-> FALSE, data |-> "malformed"],
   [recordName |-> "vUSDG", spent |-> FALSE, data |-> "ok"]}

LoanRecs ==
  {[recordName |-> "LoanPrivate", spent |-> FALSE, data |-> "ok",
    details |-> r] :
     r \in {[cls |-> "network", val |-> 0], [cls |-> "null", val |-> 0],
            [cls |-> "garbage", val |-> 0], [cls |-> "value", val |-> 1]}}
  \cup {[recordName |-> n[1], spent |-> n[2], data |-> n[3],
         details |-> [cls |-> "null", val |-> 0]] :
          n \in {<<"LoanPrivate", TRUE, "ok">>,
                 <<"LoanPrivate", FALSE, "noid">>,
                 <<"LoanPrivate", FALSE, "badid">>,
                 <<"LoanPrivate", FALSE, "malformed">>,
                 <<"avUSDG", FALSE, "ok">>}}

WalletReplies(Recs) ==
  {[cls |-> "reject", recs |-> <<>>]}
  \cup {[cls |-> "records", recs |-> s] :
          s \in UNION {[1..k -> Recs] : k \in 0..MaxRecs}}

\* getActiveLends(requestRecords): the amount of each unspent lend receipt
\* (amount 1 in every record drawn).
getActiveLends(usdg, usdq) ==
  Catch(IF usdg.cls = "reject" \/ usdq.cls = "reject" THEN Thrown
        ELSE LET records == usdg.recs \o usdq.recs
                 IsLend(record) ==
                   ~record.spent /\ record.recordName = "avUSDG"
                 lendRecords == SelectSeq(records, IsLend)
             IN  IF records = <<>> THEN Return(<<>>)
                 ELSE IF \E i \in 1..Len(lendRecords) :
                           lendRecords[i].data = "malformed"
                 THEN Thrown
                 ELSE Return([i \in 1..Len(lendRecords) |-> [amount |-> 1]]),
        <<>>)

\* for (const record of borrowRecords) { ... } of getActiveBorrows
RECURSIVE BorrowLoop(_, _)
BorrowLoop(recs, borrowPositions) ==
  IF recs = <<>> THEN Return(borrowPositions)
  ELSE LET record == Head(recs)
           loanId == IF record.data = "badid" THEN "invalid" ELSE "valid"
           loanDetails == getPublicLoanDetails(loanId, record.details).val
       IN  IF record.data = "malformed" THEN Thrown
           ELSE IF record.data = "noid" \/ ~loanDetails.found THEN
             BorrowLoop(Tail(recs), borrowPositions)
           ELSE BorrowLoop(Tail(recs),
                  Append(borrowPositions,
                         [borrowed_amount |-> loanDetails.borrowed_amount]))

getActiveBorrows(usdg, usdq) ==
  Catch(IF usdg.cls = "reject" \/ usdq.cls = "reject" THEN Thrown
        ELSE LET records == usdg.recs \o usdq.recs
                 IsLoan(record) ==
                   ~record.spent /\ record.recordName = "LoanPrivate"
                 borrowRecords == SelectSeq(records, IsLoan)
             IN  IF borrowRecords = <<>> THEN Return(<<>>)
                 ELSE BorrowLoop(borrowRecords, <<>>),
        <<>>)


(***************************************************************************)
(* lendingUtils.ts: the transaction builders.  Each awaits getBlockHeight, *)
(* getLendingTotals and, for a borrow, getNextLoanId or, for a repayment,  *)
(* getPublicLoanDetails, and returns the inputs of the transition.         *)
(***************************************************************************)
\* getBlockHeight(): the reply is "network" (fetch rejects), "http"
\* (!response.ok), "empty" (no text), "nan" (Number(text) is NaN) or
\* "value"; the catch block rethrows.  First, a variant that fails closed
\* like the readers.
getBlockHeightOrZero(r) == IF r.cls = "value" THEN Return(r.val) ELSE Return(0)

getBlockHeight(r) ==
  CASE r.cls = "network" -> Throw("Failed to fetch")
    [] r.cls = "http" -> Throw("HTTP error getting block height: ")
    [] r.cls = "empty" ->
         Throw("Empty block height response from Aleo Public API")
    [] r.cls = "nan" ->
         Throw("Invalid block height format from Aleo Public API")
    [] OTHER -> Return(r.val)

\* getNextLoanId(programId): the last_loan_id mapping, 1 by default.
getNextLoanId(r) ==
  Catch(IF r.cls \in {"network", "badjson"} THEN Thrown
        ELSE IF r.cls \in {"error", "null"} THEN Return(1)
        ELSE IF r.cls = "nonstring" THEN Thrown
        ELSE IF r.cls = "value" THEN Return(r.val)
        ELSE Return(1),
        1)

\* e holds the replies to the reads of one build: height, supplied,
\* borrowed, loanId (last_loan_id) and details (loans_public).
prepareLendingTransaction(e) ==
  LET blockHeight == getBlockHeight(e.height)
      totals      == getLendingTotals(e.supplied, e.borrowed).val
  IN  IF blockHeight.thrown THEN blockHeight
      ELSE Return([height |-> blockHeight.val, supplied |-> totals.supplied,
                   borrowed |-> totals.borrowed])

prepareRedeemTransaction(e) ==
  LET blockHeight == getBlockHeight(e.height)
      totals      == getLendingTotals(e.supplied, e.borrowed).val
  IN  IF blockHeight.thrown THEN blockHeight
      ELSE Return([height |-> blockHeight.val, supplied |-> totals.supplied])

prepareBorrowTransaction(e) ==
  LET blockHeight == getBlockHeight(e.height)
      totals      == getLendingTotals(e.supplied, e.borrowed).val
      nextLoanId  == getNextLoanId(e.loanId).val
  IN  IF blockHeight.thrown THEN blockHeight
      ELSE Return([loanId |-> nextLoanId, height |-> blockHeight.val,
                   supplied |-> totals.supplied,
                   borrowed |-> totals.borrowed])

prepareRedeemBorrowTransaction(e) ==
  LET blockHeight == getBlockHeight(e.height)
      totals      == getLendingTotals(e.supplied, e.borrowed).val
      loanDetails == getPublicLoanDetails("valid", e.details).val
  IN  IF blockHeight.thrown THEN blockHeight
      ELSE IF ~loanDetails.found THEN Throw("Failed to fetch loan details")
      ELSE Return([loanId |-> loanDetails.id_public,
                   height |-> blockHeight.val, borrowed |-> totals.borrowed])

\* ------------------------------------------- pending-operation polling
Pending(s) == IF s = "lend" THEN pendingLends ELSE pendingBorrows
Active(s)  == IF s = "lend" THEN lends ELSE activeBorrows

\* The confirmation predicate of the polling effect for the record of
\* transaction r and the pending operation p: `amount === pendingLend.amount'
\* for an avUSDG / avUSDQ record, `matchesPending' for a LoanPrivate record.
RecordMatches(s, r, p) ==
  IF s = "lend"
  THEN ops[r].kind = "lend" /\ ops[r].amt = ops[p].amt
  ELSE /\ ops[r].kind = "borrow"
       /\ ops[r].amt = ops[p].amt
       /\ ops[r].camt = ops[p].camt
       /\ ops[r].ctok = ops[p].ctok

\* Records a poll accepts for its pending operation, given the `lends' /
\* `activeBorrows' array captured by its closure.
Candidates(q) ==
  {r \in unspentRecs :
     /\ r \notin SeqToSet(q.snapA)          \* alreadyExists
     /\ RecordMatches(q.sec, r, q.pend)}

\* One poll closure of a polling-effect instance; poll() is called at once,
\* passes both tests at its head and awaits requestRecords.
NewPoll(s, p, snapP, snapA) ==
  [loop |-> "pending", sec |-> s, isMounted |-> TRUE, pend |-> p,
   snapP |-> snapP, snapA |-> snapA, start |-> now, st |-> "inflight",
   setAt |-> now, due |-> 0]

\* Cleanup of a polling-effect instance: isMounted = false and
\* timeouts.forEach(clearTimeout).
EffectCleanup(ps, s) ==
  LET mine(q) == q.loop = "pending" /\ q.sec = s
      kept    == {q \in ps : ~(mine(q) /\ q.isMounted /\ q.st = "timer")}
  IN  {IF mine(q) THEN [q EXCEPT !.isMounted = FALSE] ELSE q : q \in kept}

\* useEffect(..., [pending, publicKey, requestRecords, active, setPending]):
\* cleanup of the previous instance, then one poll per pending operation.
EffectRerun(ps, s, newP, newA) ==
  IF mounted /\ newP # <<>>
  THEN EffectCleanup(ps, s)
         \cup {NewPoll(s, newP[i], newP, newA) : i \in 1..Len(newP)}
  ELSE EffectCleanup(ps, s)

\* setPendingLends / setLends (setPendingBorrows / setActiveBorrows).  The
\* pending lists live in Dashboard; the active lists die with the section.
SetSection(s, newP, newA) ==
  IF s = "lend"
  THEN /\ pendingLends' = newP
       /\ lends' = IF mounted THEN newA ELSE lends
       /\ UNCHANGED <<pendingBorrows, activeBorrows>>
  ELSE /\ pendingBorrows' = newP
       /\ activeBorrows' = IF mounted THEN newA ELSE activeBorrows
       /\ UNCHANGED <<pendingLends, lends>>

\* ------------------------------------------------------------ handlers
FlagOf(k) == IF k = "unwrap" THEN "wrap" ELSE k
Flags     == {FlagOf(k) : k \in Kinds}

\* The closure of a handler: its inputs and the props of the render in
\* which the user clicked.
\* env is how the endpoints answer the reads of the handler's builder.
OkEnv == [height |-> "value", supplied |-> "value", borrowed |-> "value",
          loanId |-> "value", details |-> "value"]

MkCall(k, tok, amt, ctok, camt, pos) ==
  [kind |-> k, tok |-> tok, amt |-> amt, ctok |-> ctok, camt |-> camt,
   pos |-> pos, cPub |-> publicBalances, cPriv |-> privateBalances,
   cTot |-> lendingTotals, env |-> OkEnv]

\* What the chain holds when a builder reads it: one block per executed
\* transaction, and the number of the last loan.
BlockHeight == Cardinality(reflected)
LastLoanId  == Cardinality({i \in reflected : ops[i].kind = "borrow"})

\* The builder call of handler run c, its reads answered as c.env says
\* from the chain as it is; handlers without a builder in lendingUtils
\* build their transaction inline.
Build(c) ==
  LET Reply(cls, v) == [cls |-> cls, val |-> IF cls = "value" THEN v ELSE 0]
      e == [height   |-> Reply(c.env.height, BlockHeight),
            supplied |-> Reply(c.env.supplied, chainTotals.supplied),
            borrowed |-> Reply(c.env.borrowed, chainTotals.borrowed),
            loanId   |-> Reply(c.env.loanId, LastLoanId),
            details  |-> Reply(c.env.details, c.pos)]
  IN  CASE c.kind = "lend"   -> prepareLendingTransaction(e)
        [] c.kind = "redeem" -> prepareRedeemTransaction(e)
        [] c.kind = "borrow" -> prepareBorrowTransaction(e)
        [] c.kind = "repay"  -> prepareRedeemBorrowTransaction(e)
        [] OTHER             -> Return([inline |-> TRUE])

\* Messages of the errors a handler can catch.  Those of the wallet:
MsgRejected == "User rejected the request"
MsgBalance  == "Insufficient balance"
MsgFee      == "Not enough credits for the fee"
MsgOther    == "Network error"
MsgEmpty    == ""
\* and those the handlers throw themselves:
MsgNoToken      == "No suitable token record found with enough balance"
MsgNoCollateral ==
  "No suitable collateral record found. You may need to consolidate your records or use a different amount."
MsgNoRepayToken ==
  "No suitable token record found with enough balance for repayment"
MsgNoLoan       == "Loan private record not found"
MsgValidation   == "Insufficient balance for transfer and fees"
MsgAleoBalance  == "Insufficient private ALEO balance"
MsgWAleoBalance == "Insufficient private wALEO balance"
MsgNoCredits    == "No suitable credits record found with enough balance"
MsgNoWAleo      == "No suitable wALEO record found with enough balance"

\* error.message.includes(sub), for the substrings the catch blocks test.
Includes(m, sub) ==
  CASE sub = "User rejected" -> m = MsgRejected
    [] sub = "User denied" -> FALSE
    [] sub = "replace is not a function" -> FALSE
    [] sub = "Insufficient balance" -> m \in {MsgBalance, MsgValidation}
    [] sub = "fee" -> m \in {MsgFee, MsgValidation}
    [] sub = "No suitable token record" -> m \in {MsgNoToken, MsgNoRepayToken}
    [] sub = "No suitable collateral record" -> m = MsgNoCollateral
    [] sub = "No suitable" ->
         m \in {MsgNoToken, MsgNoRepayToken, MsgNoCollateral, MsgNoCredits,
                MsgNoWAleo}
    [] sub = "not found" -> m = MsgNoLoan
    [] sub = "Loan private record not found" -> m = MsgNoLoan
    [] OTHER -> FALSE

\* includes('User rejected') || includes('User denied')
Cancelled(m) == Includes(m, "User rejected") \/ Includes(m, "User denied")

\* error.message || fallback
OrElse(m, fallback) == IF m = "" THEN fallback ELSE m

\* The message the catch block of handler k stores for an Error whose
\* message is m.
ErrorMessage(k, m) ==
  CASE k = "lend" ->
         IF Cancelled(m) THEN "Transaction cancelled by user"
         ELSE IF Includes(m, "No suitable token record")
         THEN "No token record found with enough balance. You may need to consolidate your records."
         ELSE IF Includes(m, "Insufficient balance")
         THEN "Insufficient balance for lending and fees"
         ELSE IF Includes(m, "fee")
         THEN "Insufficient ALEO for transaction fees"
         ELSE OrElse(m, "Transaction failed. Please try again.")
    [] k = "borrow" ->
         IF Cancelled(m) THEN "Transaction cancelled"
         ELSE IF Includes(m, "No suitable collateral record") THEN m
         ELSE IF Includes(m, "Insufficient balance")
         THEN "Insufficient balance for borrowing and fees"
         ELSE IF Includes(m, "fee")
         THEN "Insufficient ALEO for transaction fees"
         ELSE "Transaction failed. Please try again."
    [] k = "transfer" ->
         IF Cancelled(m) THEN "Transaction cancelled"
         ELSE IF Includes(m, "Insufficient balance")
         THEN "Insufficient balance for transfer and fees"
         ELSE IF Includes(m, "fee")
         THEN "Insufficient ALEO for transaction fees"
         ELSE OrElse(m, "Transaction failed. Please try again.")
    [] k \in {"wrap", "unwrap"} ->
         IF Cancelled(m) THEN "Transaction cancelled by user"
         ELSE IF Includes(m, "No suitable") \/ Includes(m, "not found")
         THEN IF k = "wrap"
              THEN "No credits record found with enough balance."
              ELSE "No wALEO record found with enough balance."
         ELSE IF Includes(m, "Insufficient balance")
         THEN IF k = "wrap" THEN "Insufficient balance for wrap and fees"
              ELSE "Insufficient balance for unwrap and fees"
         ELSE IF Includes(m, "fee")
         THEN "Insufficient ALEO for transaction fees"
         ELSE m
    [] k = "redeem" ->
         IF Cancelled(m) THEN "Transaction cancelled by user"
         ELSE IF Includes(m, "Insufficient balance")
         THEN "Insufficient balance for fees"
         ELSE m
    [] k = "repay" ->
         IF Cancelled(m) THEN "Transaction cancelled by user"
         ELSE IF Includes(m, "No suitable token record")
         THEN "No token record found with enough balance. You may need to consolidate your records."
         ELSE IF Includes(m, "Loan private record not found")
         THEN "Could not find the loan record. Please try again."
         ELSE IF Includes(m, "Insufficient balance")
         THEN "Insufficient balance for repayment and fees"
         ELSE IF Includes(m, "replace is not a function")
         THEN "Data formatting error. Please try again."
         ELSE m

\* Rejections of requestRecords, of a transaction builder and of
\* requestTransaction.
WalletMsgs == {MsgOther, MsgEmpty}
RejectMsgs == {MsgRejected, MsgBalance, MsgFee, MsgOther, MsgEmpty}

\* The error a handler throws itself between the click and
\* requestTransaction, in the order of its checks; {} when every check
\* passes.
StepFailure(c) ==
  LET built == IF Build(c).thrown THEN {Build(c).msg} ELSE {}
  IN
  CASE c.kind = "lend" ->
         IF chainPrivate[c.tok] >= c.amt THEN built ELSE {MsgNoToken}
    [] c.kind = "borrow" ->
         IF chainPrivate[c.ctok] >= c.camt THEN built ELSE {MsgNoCollateral}
    [] c.kind = "transfer" ->
         IF c.amt <= Get(c.cPub, c.tok) THEN {} ELSE {MsgValidation}
    [] c.kind = "wrap" ->
         IF c.amt > Get(c.cPriv, "ALEO") THEN {MsgAleoBalance}
         ELSE IF chainPrivate["ALEO"] >= c.amt THEN {} ELSE {MsgNoCredits}
    [] c.kind = "unwrap" ->
         IF c.amt > Get(c.cPriv, "wALEO") THEN {MsgWAleoBalance}
         ELSE IF chainPrivate["wALEO"] >= c.amt THEN {} ELSE {MsgNoWAleo}
    [] c.kind = "redeem" -> built
    [] c.kind = "repay" ->
         IF chainPrivate["vUSDG"] < c.amt THEN {MsgNoRepayToken}
         ELSE IF c.pos \notin unspentRecs THEN {MsgNoLoan} ELSE built

\* Every check between the click and requestTransaction passes.
Precheck(c) == StepFailure(c) = {}

\* A click on the submit button of a modal or on Redeem / Repay: the
\* handler runs to its first await.
Click(c) ==
  /\ mounted
  /\ budget > 0
  /\ Cardinality(calls) < MaxCalls
  /\ c \notin calls
  /\ IF c.kind \in {"redeem", "repay"}
     THEN /\ c.pos \in SeqToSet(IF c.kind = "redeem" THEN lends
                                ELSE activeBorrows)
          /\ inProgress[c.kind] # c.pos
          /\ inProgress' = [inProgress EXCEPT ![c.kind] = c.pos]
          /\ UNCHANGED <<errorMsg, errorTimer>>
     ELSE /\ inProgress[FlagOf(c.kind)] = 0
          /\ inProgress' = [inProgress EXCEPT ![FlagOf(c.kind)] = 1]
          /\ errorMsg' = [errorMsg EXCEPT ![FlagOf(c.kind)] = "null"]
          /\ UNCHANGED errorTimer
  /\ calls' = calls \cup {c}
  /\ budget' = budget - 1
  /\ UNCHANGED <<utilVars, now, ops, chainVars, ledgerVars, posVars, totVars,
                 submitted, mounted, pollingTimeoutRef, polls, matched>>

\* A ref or a state that holds null or a number.
Null     == [isNull |-> TRUE, val |-> 0]
Ref(v)   == [isNull |-> FALSE, val |-> v]

\* The sections whose error state has the clearing effect; the modals
\* (lend, borrow, transfer, wrap) set their error state without one.
SectionFlags == {"redeem", "repay"}

\* useEffect(() => { if (error) { const timer = setTimeout(...,
\* 3000); return () => clearTimeout(timer); } }, [error]) after setError(m)
\* of section f: no re-run when the state did not change.
ErrorEffect(f, m) ==
  IF f \notin SectionFlags \/ ~mounted \/ m = errorMsg[f] THEN errorTimer
  ELSE [errorTimer EXCEPT ![f] = IF m = "" THEN Null
                                 ELSE Ref(now + ERROR_MS)]

\* Variant of HandlerCatch without the finally block.
HandlerCatchNoFinally(c, m) ==
  /\ errorMsg' = IF mounted
                 THEN [errorMsg EXCEPT ![FlagOf(c.kind)] =
                                          ErrorMessage(c.kind, m)]
                 ELSE errorMsg
  /\ errorTimer' = ErrorEffect(FlagOf(c.kind), ErrorMessage(c.kind, m))
  /\ UNCHANGED <<inProgress, ledgerVars, posVars, totVars, pollingTimeoutRef,
                 polls>>

\* catch + finally of a handler: a step before requestTransaction threw, or
\* requestTransaction rejected.
HandlerCatch(c, m) ==
  /\ errorMsg' = IF mounted
                 THEN [errorMsg EXCEPT ![FlagOf(c.kind)] =
                                          ErrorMessage(c.kind, m)]
                 ELSE errorMsg
  /\ errorTimer' = ErrorEffect(FlagOf(c.kind), ErrorMessage(c.kind, m))
  /\ inProgress' = [inProgress EXCEPT ![FlagOf(c.kind)] = 0]
  /\ UNCHANGED <<ledgerVars, posVars, totVars, pollingTimeoutRef, polls>>

\* A step before requestTransaction fails (a check of the handler, or a
\* rejected requestRecords or builder): requestTransaction is not called.
FailBefore(c, m) ==
  /\ c \in calls
  /\ m \in StepFailure(c) \cup WalletMsgs
  /\ calls' = calls \ {c}
  /\ HandlerCatch(c, m)
  /\ UNCHANGED <<utilVars, now, budget, ops, chainVars, submitted, mounted, matched>>

\* requestTransaction is called and rejects.
WalletReject(c, m) ==
  /\ c \in calls
  /\ m \in RejectMsgs
  /\ Precheck(c)
  /\ calls' = calls \ {c}
  /\ submitted' = submitted + 1
  /\ HandlerCatch(c, m)
  /\ UNCHANGED <<utilVars, now, budget, ops, chainVars, mounted, matched>>

NoTimer  == <<NoId, "none">>

\* setTimeout(() => pollTokenBalance(tokenId, Date.now()), delay), with the
\* pollTokenBalance of the render in which the user clicked.
BalFirst(id, tok, c, delay) ==
  [loop |-> "balance", id |-> <<id, tok>>, tok |-> tok, start |-> 0,
   attempt |-> 1, cPub |-> c.cPub, cPriv |-> c.cPriv, st |-> "first",
   setAt |-> now, due |-> now + delay]

\* The confirmation poll of handleRedeem / handleRepay: poll() is called at
\* once and awaits getActiveLends / getActiveBorrows.
FlagPoll(s, pos) ==
  [loop |-> "flag", sec |-> s, pos |-> pos, start |-> now,
   st |-> "inflight", setAt |-> now, due |-> 0]

\* The confirmation poll of AssetsToBorrow.handleBorrowSuccess.
TotalsPoll(id, c) ==
  [loop |-> "totals", id |-> id, amt |-> c.amt,
   expected |-> c.cTot.borrowed + c.amt, start |-> now,
   st |-> "inflight", setAt |-> now, due |-> 0]

\* Variant of OnLendSuccess without the setPrivateBalances call.
OnLendSuccessNoDebit(c, id) ==
  LET np == Append(pendingLends, id)
  IN /\ SetSection("lend", np, lends)
     /\ polls' = EffectRerun(polls, "lend", np, lends)
                   \cup {BalFirst(id, c.tok, c, FIRST_POLL_MS)}
     /\ UNCHANGED <<privateBalances, publicBalances, totVars>>

\* AssetsToLend.handleLendSuccess + Dashboard.handleLendPending
OnLendSuccess(c, id) ==
  LET np == Append(pendingLends, id)
  IN /\ privateBalances' =
          Put(privateBalances, c.tok, Get(privateBalances, c.tok) - c.amt)
     /\ SetSection("lend", np, lends)
     /\ polls' = EffectRerun(polls, "lend", np, lends)
                   \cup {BalFirst(id, c.tok, c, FIRST_POLL_MS)}
     /\ UNCHANGED <<publicBalances, totVars>>

\* AssetsToBorrow.handleBorrowSuccess + Dashboard.handleBorrowSuccess
OnBorrowSuccess(c, id) ==
  LET np == Append(pendingBorrows, id)
      b1 == Put(privateBalances, c.tok, Get(privateBalances, c.tok) + c.amt)
  IN /\ privateBalances' = Put(b1, c.ctok, Get(b1, c.ctok) - c.camt)
     /\ SetSection("borrow", np, activeBorrows)
     /\ optimisticAvailableRef' =
          Ref((c.cTot.supplied - c.cTot.borrowed) - c.amt)
     /\ lastBorrowAmountRef' = Ref(c.amt)
     /\ lendingTotals' = [lendingTotals EXCEPT !.borrowed = @ + c.amt]
     /\ polls' = EffectRerun(polls, "borrow", np, activeBorrows)
                   \cup {TotalsPoll(id, c)}
     /\ UNCHANGED publicBalances

\* Variant of OnTransferSuccess without the setPublicBalances call.
OnTransferSuccessNoDebit(c, id) ==
  /\ privateBalances' =
       Put(privateBalances, c.tok, Get(privateBalances, c.tok) + c.amt)
  /\ polls' = polls \cup {BalFirst(id, c.tok, c, FIRST_POLL_MS)}
  /\ UNCHANGED <<publicBalances, posVars, totVars>>

\* AssetsToLend.handleTransferSuccess
OnTransferSuccess(c, id) ==
  /\ publicBalances' =
       Put(publicBalances, c.tok, Get(publicBalances, c.tok) - c.amt)
  /\ privateBalances' =
       Put(privateBalances, c.tok, Get(privateBalances, c.tok) + c.amt)
  /\ polls' = polls \cup {BalFirst(id, c.tok, c, FIRST_POLL_MS)}
  /\ UNCHANGED <<posVars, totVars>>

\* AssetsToLend.handleWrapSuccess(amount, transactionId, isWrap)
OnWrapSuccess(c, id, isWrap) ==
  LET from == IF isWrap THEN "ALEO" ELSE "wALEO"
      to   == IF isWrap THEN "wALEO" ELSE "ALEO"
      b1   == Put(privateBalances, from, Get(privateBalances, from) - c.amt)
  IN /\ privateBalances' = Put(b1, to, Get(privateBalances, to) + c.amt)
     /\ polls' = polls \cup {BalFirst(id, "ALEO", c, WRAP_ALEO_MS),
                             BalFirst(id, "wALEO", c, WRAP_WALEO_MS)}
     /\ UNCHANGED <<publicBalances, posVars, totVars>>

\* YourLends.handleRedeem after requestTransaction + handleRedeemSuccess
OnRedeemSuccess(c, id) ==
  LET nl == SeqFilterOut(lends, c.pos)
  IN /\ SetSection("lend", pendingLends, nl)
     /\ privateBalances' =
          Put(privateBalances, "vUSDG", Get(privateBalances, "vUSDG") + c.amt)
     /\ polls' = EffectRerun(polls, "lend", pendingLends, nl)
                   \cup {FlagPoll("lend", c.pos)}
     /\ UNCHANGED <<publicBalances, totVars>>

\* YourBorrows.handleRepay after requestTransaction + handleRepaySuccess
OnRepaySuccess(c, id) ==
  LET nb == SeqFilterOut(activeBorrows, c.pos)
      b1 == Put(privateBalances, "vUSDG",
                Get(privateBalances, "vUSDG") - c.amt)
  IN /\ SetSection("borrow", pendingBorrows, nb)
     /\ privateBalances' = Put(b1, c.ctok, Get(b1, c.ctok) + c.camt)
     /\ polls' = EffectRerun(polls, "borrow", pendingBorrows, nb)
                   \cup {FlagPoll("borrow", c.pos)}
     /\ UNCHANGED <<publicBalances, totVars>>

\* requestTransaction resolved with a transaction id: the rest of the try
\* block and the finally block of the handler.
AcceptBody(c) ==
  LET id == Len(ops) + 1
  IN /\ Precheck(c)
     /\ ops' = Append(ops, [kind |-> c.kind, tok |-> c.tok, amt |-> c.amt,
                            ctok |-> c.ctok, camt |-> c.camt,
                            pos |-> c.pos, t0 |-> now,
                            reads |-> c.env])
     /\ submitted' = submitted + 1
     /\ calls' = calls \ {c}
     /\ inProgress' = [inProgress EXCEPT ![FlagOf(c.kind)] = 0]
     /\ CASE c.kind = "lend"     -> OnLendSuccess(c, id)
          [] c.kind = "borrow"   -> OnBorrowSuccess(c, id)
          [] c.kind = "transfer" -> OnTransferSuccess(c, id)
          [] c.kind = "wrap"     -> OnWrapSuccess(c, id, TRUE)
          [] c.kind = "unwrap"   -> OnWrapSuccess(c, id, FALSE)
          [] c.kind = "redeem"   -> OnRedeemSuccess(c, id)
          [] c.kind = "repay"    -> OnRepaySuccess(c, id)
     /\ UNCHANGED <<utilVars, now, chainVars, mounted, pollingTimeoutRef, matched>>

\* The wallet accepts the transaction of a suspended handler.
WalletAccept(c) ==
  /\ c \in calls
  /\ AcceptBody(c)
  /\ UNCHANGED <<budget, errorMsg, errorTimer>>

\* A click whose handler reaches the wallet and is accepted before any
\* other task runs.
Submit(c) ==
  /\ mounted
  /\ budget > 0
  /\ budget' = budget - 1
  /\ calls = {}
  /\ IF c.kind \in {"redeem", "repay"}
     THEN /\ c.pos \in SeqToSet(IF c.kind = "redeem" THEN lends
                                ELSE activeBorrows)
          /\ inProgress[c.kind] # c.pos
          /\ UNCHANGED <<errorMsg, errorTimer>>
     ELSE /\ inProgress[FlagOf(c.kind)] = 0
          /\ errorMsg' = [errorMsg EXCEPT ![FlagOf(c.kind)] = "null"]
          /\ UNCHANGED errorTimer
  /\ AcceptBody(c)

\* The inputs a user can give to each handler.
LendCalls     == {MkCall("lend", i[1], i[2], "none", 0, NoId) : i \in LendInputs}
BorrowCalls   == {MkCall("borrow", i[1], i[2], i[4], i[3], NoId) :
                    i \in BorrowInputs}
TransferCalls == {MkCall("transfer", "vUSDG", a, "none", 0, NoId) :
                    a \in Amounts}
WrapCalls     == {MkCall(k, "ALEO", a, "none", 0, NoId) :
                    k \in {"wrap", "unwrap"}, a \in Amounts}
RedeemCalls   == {MkCall("redeem", ops[p].tok, ops[p].amt, "none", 0, p) :
                    p \in SeqToSet(lends)}
RepayCalls    == {MkCall("repay", "vUSDG", ops[p].amt, ops[p].ctok,
                         ops[p].camt, p) : p \in SeqToSet(activeBorrows)}

\* ------------------------------------------------------------ the chain
\* The chain can execute accepted transaction i.
ChainCanExecute(i) ==
  LET o == ops[i]
  IN CASE o.kind = "lend"     -> chainPrivate[o.tok] >= o.amt
       [] o.kind = "borrow"   -> /\ chainPrivate[o.ctok] >= o.camt
                                 /\ chainTotals.supplied
                                      - chainTotals.borrowed >= o.amt
       [] o.kind = "transfer" -> chainPublic[o.tok] >= o.amt
       [] o.kind = "wrap"     -> chainPrivate["ALEO"] >= o.amt
       [] o.kind = "unwrap"   -> chainPrivate["wALEO"] >= o.amt
       [] o.kind = "redeem"   -> o.pos \in unspentRecs
       [] o.kind = "repay"    -> /\ o.pos \in unspentRecs
                                 /\ chainPrivate["vUSDG"] >= o.amt

Move(b, from, to, a) == [b EXCEPT ![from] = @ - a, ![to] = b[to] + a]

\* The chain executes accepted transaction i; the wallet and the RPC
\* endpoint report the result from now on.  A borrow is a transition of
\* LENDING_PROGRAM_ID whatever row of AssetsToBorrow opened the modal
\* (prepareBorrowTransaction takes no token), and handleRepay repays with
\* a vUSDG record: the loan is paid out and repaid in vUSDG.
ChainExecute(i) ==
  /\ i \in 1..Len(ops)
  /\ i \notin reflected
  /\ ChainCanExecute(i)
  /\ reflected' = reflected \cup {i}
  /\ LET o == ops[i]
     IN CASE o.kind = "lend" ->
               /\ chainPrivate' = [chainPrivate EXCEPT ![o.tok] = @ - o.amt]
               /\ chainTotals' = [chainTotals EXCEPT !.supplied = @ + o.amt]
               /\ unspentRecs' = unspentRecs \cup {i}
               /\ recTs' = Put(recTs, i, Cardinality(DOMAIN recTs) + 1)
               /\ UNCHANGED chainPublic
          [] o.kind = "borrow" ->
               /\ chainPrivate' = [chainPrivate EXCEPT
                                     !["vUSDG"] = @ + o.amt,
                                     ![o.ctok] = @ - o.camt]
               /\ chainTotals' = [chainTotals EXCEPT !.borrowed = @ + o.amt]
               /\ unspentRecs' = unspentRecs \cup {i}
               /\ recTs' = Put(recTs, i, Cardinality(DOMAIN recTs) + 1)
               /\ UNCHANGED chainPublic
          [] o.kind = "transfer" ->
               /\ chainPublic' = [chainPublic EXCEPT ![o.tok] = @ - o.amt]
               /\ chainPrivate' = [chainPrivate EXCEPT ![o.tok] = @ + o.amt]
               /\ UNCHANGED <<chainTotals, unspentRecs, recTs>>
          [] o.kind = "wrap" ->
               /\ chainPrivate' = Move(chainPrivate, "ALEO", "wALEO", o.amt)
               /\ UNCHANGED <<chainPublic, chainTotals, unspentRecs, recTs>>
          [] o.kind = "unwrap" ->
               /\ chainPrivate' = Move(chainPrivate, "wALEO", "ALEO", o.amt)
               /\ UNCHANGED <<chainPublic, chainTotals, unspentRecs, recTs>>
          [] o.kind = "redeem" ->
               /\ unspentRecs' = unspentRecs \ {o.pos}
               /\ chainPrivate' = [chainPrivate EXCEPT
                                     ![ops[o.pos].tok] = @ + o.amt]
               /\ chainTotals' = [chainTotals EXCEPT !.supplied = @ - o.amt]
               /\ UNCHANGED <<chainPublic, recTs>>
          [] o.kind = "repay" ->
               /\ unspentRecs' = unspentRecs \ {o.pos}
               /\ chainPrivate' = [chainPrivate EXCEPT
                                     !["vUSDG"] = @ - o.amt,
                                     ![o.ctok] = @ + o.camt]
               /\ chainTotals' = [chainTotals EXCEPT !.borrowed = @ - o.amt]
               /\ UNCHANGED <<chainPublic, recTs>>
  /\ UNCHANGED <<utilVars, now, budget, ops, ledgerVars, posVars, totVars, uiVars,
                 calls, submitted, mounted, pollingTimeoutRef, polls, matched>>

Tick ==
  /\ now + ClockStep <= MaxTime
  /\ now' = now + ClockStep
  /\ UNCHANGED <<utilVars, budget, ops, chainVars, ledgerVars, posVars, totVars, uiVars,
                 calls, submitted, mounted, pollingTimeoutRef, polls, matched>>

\* setTimeout(poll, delay)
Rearm(q, delay) ==
  [q EXCEPT !.st = "timer", !.setAt = now, !.due = now + delay]

\* ------------------------------------- pending-lend / pending-borrow poll
\* requestRecords (and for a borrow getPublicLoanDetails) settled: the rest
\* of poll() after its await.  No isMounted test follows the await.
PollReturn(q) ==
  /\ q \in polls /\ q.loop = "pending" /\ q.st = "inflight"
  /\ \/ \E r \in Candidates(q) :
          LET newA == InsertDesc(Active(q.sec), r, recTs)
              newP == SeqFilterOut(q.snapP, q.pend)
          IN /\ polls' = EffectRerun(polls \ {q}, q.sec, newP, newA)
             /\ SetSection(q.sec, newP, newA)
             /\ matched' = Append(matched, <<q.pend, r>>)
     \/ /\ Candidates(q) = {}
        /\ polls' = (polls \ {q}) \cup {Rearm(q, POLL_MS)}
        /\ UNCHANGED <<posVars, matched>>
  /\ UNCHANGED <<utilVars, now, budget, ops, chainVars, ledgerVars, totVars, uiVars,
                 calls, submitted, mounted, pollingTimeoutRef>>

\* requestRecords rejected: the catch block logs, the poll is rescheduled.
PollError(q) ==
  /\ q \in polls /\ q.loop = "pending" /\ q.st = "inflight"
  /\ polls' = (polls \ {q}) \cup {Rearm(q, POLL_MS)}
  /\ UNCHANGED <<utilVars, now, budget, ops, chainVars, ledgerVars, posVars, totVars,
                 uiVars, calls, submitted, mounted, pollingTimeoutRef,
                 matched>>

\* A timer of a polling effect fires: the head of poll().
TimerFire(q) ==
  /\ q \in polls /\ q.loop = "pending" /\ q.st = "timer"
  /\ now >= q.due
  /\ IF ~q.isMounted
     THEN /\ polls' = polls \ {q}
          /\ UNCHANGED posVars
     ELSE IF now - q.start > TIMEOUT_MS
     THEN LET newP == SeqFilterOut(q.snapP, q.pend)
          IN /\ polls' = EffectRerun(polls \ {q}, q.sec, newP, Active(q.sec))
             /\ SetSection(q.sec, newP, Active(q.sec))
     ELSE /\ polls' = (polls \ {q}) \cup {[q EXCEPT !.st = "inflight"]}
          /\ UNCHANGED posVars
  /\ UNCHANGED <<utilVars, now, budget, ops, chainVars, ledgerVars, totVars, uiVars,
                 calls, submitted, mounted, pollingTimeoutRef, matched>>

\* ------------------------------------------------------ pollTokenBalance
\* The timer of handleLendSuccess / handleTransferSuccess / handleWrapSuccess
\* fires: pollTokenBalance(tokenId, Date.now()) runs to its first await.
BalFirstFire(q) ==
  /\ q \in polls /\ q.loop = "balance" /\ q.st = "first"
  /\ now >= q.due
  /\ polls' = (polls \ {q}) \cup {[q EXCEPT !.start = now, !.st = "inflight"]}
  /\ UNCHANGED <<utilVars, now, budget, ops, chainVars, ledgerVars, posVars, totVars,
                 uiVars, calls, submitted, mounted, pollingTimeoutRef,
                 matched>>

\* A timer set by pollTokenBalance fires: the head of the next attempt.
BalTimerFire(q) ==
  /\ q \in polls /\ q.loop = "balance" /\ q.st = "timer"
  /\ now >= q.due
  /\ polls' = IF now - q.start > TIMEOUT_MS
              THEN polls \ {q}
              ELSE (polls \ {q}) \cup {[q EXCEPT !.st = "inflight"]}
  /\ UNCHANGED <<utilVars, now, budget, ops, chainVars, ledgerVars, posVars, totVars,
                 uiVars, calls, submitted, mounted, pollingTimeoutRef,
                 matched>>

\* attempt <= 3 ? 2000 : attempt <= 6 ? 3000 : 5000
NextInterval(attempt) ==
  IF attempt <= 3 THEN 2000 ELSE IF attempt <= 6 THEN 3000 ELSE 5000

\* attempt <= 3 ? 3000 : 5000
RetryInterval(attempt) == IF attempt <= 3 THEN 3000 ELSE 5000

\* pollingTimeoutRef.current = setTimeout(() => pollTokenBalance(tokenId,
\* startTime, attempt + 1), delay)
BalRearm(q, delay) ==
  [q EXCEPT !.st = "timer", !.setAt = now, !.due = now + delay,
            !.attempt = @ + 1]

\* The reads of one attempt settled: the try block of pollTokenBalance.
\* pubOk is FALSE when the RPC read failed (getPublicBalance then yields 0).
BalReturn(q, pubOk) ==
  /\ q \in polls /\ q.loop = "balance" /\ q.st = "inflight"
  /\ LET pubIn   == q.tok \in DOMAIN q.cPub
         privIn  == q.tok \in DOMAIN q.cPriv
         newPub  == IF pubOk THEN chainPublic[q.tok] ELSE 0
         newPriv == chainPrivate[q.tok]
         pubChanged  == pubIn /\ newPub # q.cPub[q.tok]
         privChanged == privIn /\ newPriv # q.cPriv[q.tok]
         shouldContinuePolling ==
           IF privIn THEN ~privChanged ELSE pubIn /\ ~pubChanged
     IN /\ publicBalances' = IF pubChanged
                             THEN Put(publicBalances, q.tok, newPub)
                             ELSE publicBalances
        /\ privateBalances' = IF privChanged
                              THEN Put(privateBalances, q.tok, newPriv)
                              ELSE privateBalances
        /\ IF shouldContinuePolling
           THEN /\ polls' = (polls \ {q})
                              \cup {BalRearm(q, NextInterval(q.attempt))}
                /\ pollingTimeoutRef' = q.id
           ELSE /\ polls' = polls \ {q}
                /\ UNCHANGED pollingTimeoutRef
  /\ UNCHANGED <<utilVars, now, budget, ops, chainVars, posVars, totVars, uiVars,
                 calls, submitted, mounted, matched>>

\* requestRecords rejected: the catch block of pollTokenBalance.
BalError(q) ==
  /\ q \in polls /\ q.loop = "balance" /\ q.st = "inflight"
  /\ polls' = (polls \ {q}) \cup {BalRearm(q, RetryInterval(q.attempt))}
  /\ pollingTimeoutRef' = q.id
  /\ UNCHANGED <<utilVars, now, budget, ops, chainVars, ledgerVars, posVars, totVars,
                 uiVars, calls, submitted, mounted, matched>>

\* --------------------------------- confirmation poll of redeem and repay
FlagKind(s) == IF s = "lend" THEN "redeem" ELSE "repay"

\* setIsRedeeming(null)
ClearFlag(s) ==
  inProgress' = IF mounted THEN [inProgress EXCEPT ![FlagKind(s)] = 0]
                ELSE inProgress

\* getActiveLends / getActiveBorrows settled; on an error they yield [].
FlagReturn(q, ok) ==
  /\ q \in polls /\ q.loop = "flag" /\ q.st = "inflight"
  /\ IF ~ok \/ q.pos \notin unspentRecs
     THEN /\ polls' = polls \ {q}
          /\ ClearFlag(q.sec)
     ELSE /\ polls' = (polls \ {q}) \cup {Rearm(q, POLL_MS)}
          /\ UNCHANGED inProgress
  /\ UNCHANGED <<utilVars, now, budget, ops, chainVars, ledgerVars, posVars, totVars,
                 errorMsg, errorTimer, calls, submitted, mounted, pollingTimeoutRef,
                 matched>>

\* Variant of FlagTimerFire whose poll never tests the elapsed time.
FlagTimerFireNoBudget(q) ==
  /\ q \in polls /\ q.loop = "flag" /\ q.st = "timer"
  /\ now >= q.due
  /\ polls' = (polls \ {q}) \cup {[q EXCEPT !.st = "inflight"]}
  /\ UNCHANGED <<utilVars, now, budget, ops, chainVars, ledgerVars, posVars, totVars,
                 errorMsg, errorTimer, calls, submitted, mounted, pollingTimeoutRef,
                 matched, inProgress>>

FlagTimerFire(q) ==
  /\ q \in polls /\ q.loop = "flag" /\ q.st = "timer"
  /\ now >= q.due
  /\ IF now - q.start > TIMEOUT_MS
     THEN /\ polls' = polls \ {q}
          /\ ClearFlag(q.sec)
     ELSE /\ polls' = (polls \ {q}) \cup {[q EXCEPT !.st = "inflight"]}
          /\ UNCHANGED inProgress
  /\ UNCHANGED <<utilVars, now, budget, ops, chainVars, ledgerVars, posVars, totVars,
                 errorMsg, errorTimer, calls, submitted, mounted, pollingTimeoutRef,
                 matched>>

\* ------------------------------- confirmation poll of handleBorrowSuccess
\* getLendingTotals settled; on an error it yields zero totals.
TotReturn(q, ok) ==
  /\ q \in polls /\ q.loop = "totals" /\ q.st = "inflight"
  /\ LET totals == IF ok THEN chainTotals
                   ELSE [supplied |-> 0, borrowed |-> 0]
     IN IF totals.borrowed >= q.expected
        THEN /\ polls' = polls \ {q}
             /\ IF mounted
                THEN /\ lendingTotals' = totals
                     /\ optimisticAvailableRef' = Null
                     /\ lastBorrowAmountRef' = Null
                ELSE UNCHANGED totVars
        ELSE /\ polls' = (polls \ {q}) \cup {Rearm(q, POLL_MS)}
             /\ UNCHANGED totVars
  /\ UNCHANGED <<utilVars, now, budget, ops, chainVars, ledgerVars, posVars, uiVars,
                 calls, submitted, mounted, pollingTimeoutRef, matched>>

TotTimerFire(q) ==
  /\ q \in polls /\ q.loop = "totals" /\ q.st = "timer"
  /\ now >= q.due
  /\ IF now - q.start > TIMEOUT_MS
     THEN /\ polls' = polls \ {q}
          /\ lastBorrowAmountRef' = IF mounted THEN Null
                                    ELSE lastBorrowAmountRef
          /\ UNCHANGED <<lendingTotals, optimisticAvailableRef>>
     ELSE /\ polls' = (polls \ {q}) \cup {[q EXCEPT !.st = "inflight"]}
          /\ UNCHANGED totVars
  /\ UNCHANGED <<utilVars, now, budget, ops, chainVars, ledgerVars, posVars, uiVars,
                 calls, submitted, mounted, pollingTimeoutRef, matched>>

\* useState initial value of AssetsToBorrow.lendingTotals
NoTotals == [supplied |-> 0, borrowed |-> 0]

\* ------------------------------------- AssetsToBorrow.loadLendingTotals
\* The 10-second interval calls loadLendingTotals and getLendingTotals
\* settles (zero totals on an error).  The callback is memoised with an
\* empty dependency list, so the lendingTotals it reads is the state of the
\* first render, NoTotals.
LoadLendingTotals(ok) ==
  /\ mounted
  /\ LET totals == IF ok THEN chainTotals
                   ELSE [supplied |-> 0, borrowed |-> 0]
         expectedBorrowed == NoTotals.borrowed + lastBorrowAmountRef.val
     IN /\ IF /\ ~lastBorrowAmountRef.isNull
              /\ lastBorrowAmountRef.val # 0
              /\ totals.borrowed >= expectedBorrowed
           THEN /\ optimisticAvailableRef' = Null
                /\ lastBorrowAmountRef' = Null
           ELSE UNCHANGED <<optimisticAvailableRef, lastBorrowAmountRef>>
        /\ lendingTotals' = totals
  /\ UNCHANGED <<utilVars, now, budget, ops, chainVars, ledgerVars, posVars,
                 uiVars, calls, submitted, mounted, pollingTimeoutRef, polls,
                 matched>>

\* ---------------------------------------------------------------- unmount


\* The wallet disconnects: Dashboard stops rendering the four sections.
\* Their effect cleanups run; their state and refs are discarded.
Unmount ==
  /\ mounted
  /\ mounted' = FALSE
  /\ polls' = {q \in EffectCleanup(EffectCleanup(polls, "lend"), "borrow") :
                 ~(q.loop = "balance" /\ q.st = "timer"
                     /\ q.id = pollingTimeoutRef)}
  /\ pollingTimeoutRef' = NoTimer
  /\ lends' = <<>>
  /\ activeBorrows' = <<>>
  /\ lendingTotals' = NoTotals
  /\ optimisticAvailableRef' = Null
  /\ lastBorrowAmountRef' = Null
  /\ inProgress' = [f \in Flags |-> 0]
  /\ errorMsg' = [f \in Flags |-> "null"]
  /\ errorTimer' = [f \in Flags |-> Null]
  /\ UNCHANGED <<utilVars, now, budget, ops, chainVars, ledgerVars, pendingLends,
                 pendingBorrows, calls, submitted, matched>>

\* ------------------------------------------------------------------ clock
Waiting(q) == q.st \in {"first", "timer"}
Overdue    == \E q \in polls : Waiting(q) /\ q.due <= now

\* The clock advances once every timer that is due has fired.
TickDue ==
  /\ ~Overdue
  /\ now + ClockStep <= MaxTime
  /\ now' = now + ClockStep
  /\ UNCHANGED <<utilVars, budget, ops, chainVars, ledgerVars, posVars, totVars, uiVars,
                 calls, submitted, mounted, pollingTimeoutRef, polls, matched>>

\* Past the horizon the clock advances only while a timer is set.
TickPast ==
  /\ ~Overdue
  /\ now + ClockStep > MaxTime
  /\ \E q \in polls : Waiting(q)
  /\ now' = now + ClockStep
  /\ UNCHANGED <<utilVars, budget, ops, chainVars, ledgerVars, posVars, totVars, uiVars,
                 calls, submitted, mounted, pollingTimeoutRef, polls, matched>>

\* ------------------------------------------------------------------- Init
\* The dashboard has mounted and its initial loads (loadLends, loadBorrows,
\* loadBalances, loadLendingTotals) have completed.
InitCommon(b) ==
  /\ now = 0
  /\ budget = b
  /\ chainPrivate = InitPrivate
  /\ chainPublic = InitPublic
  /\ chainTotals = InitTotals
  /\ privateBalances = LoadedPrivate(InitPrivate)
  /\ publicBalances = LoadedPublic(InitPublic)
  /\ pendingLends = <<>>
  /\ pendingBorrows = <<>>
  /\ lendingTotals = InitTotals
  /\ optimisticAvailableRef = Null
  /\ lastBorrowAmountRef = Null
  /\ inProgress = [f \in Flags |-> 0]
  /\ errorMsg = [f \in Flags |-> "null"]
  /\ errorTimer = [f \in Flags |-> Null]
  /\ calls = {}
  /\ submitted = 0
  /\ mounted = TRUE
  /\ pollingTimeoutRef = NoTimer
  /\ polls = {}
  /\ matched = <<>>

\* An account without positions.
InitEmpty(b) ==
  /\ InitCommon(b)
  /\ ops = <<>>
  /\ reflected = {}
  /\ unspentRecs = {}
  /\ recTs = <<>>
  /\ lends = <<>>
  /\ activeBorrows = <<>>
  /\ utilCall = [fn |-> "none"]
  /\ utilResult = [done |-> FALSE]

\* An account that holds one lend receipt and one loan from earlier
\* sessions (transactions 1 and 2 of the log).
HistOps ==
  << [kind |-> "lend", tok |-> "vUSDG", amt |-> 1, ctok |-> "none",
      camt |-> 0, pos |-> NoId, t0 |-> 0,
      reads |-> OkEnv],
     [kind |-> "borrow", tok |-> "vUSDG", amt |-> 1, ctok |-> "wALEO",
      camt |-> 1, pos |-> NoId, t0 |-> 0,
      reads |-> OkEnv] >>

InitOpen(b) ==
  /\ InitCommon(b)
  /\ ops = HistOps
  /\ reflected = {1, 2}
  /\ unspentRecs = {1, 2}
  /\ recTs = <<1, 2>>
  /\ lends = <<1>>
  /\ activeBorrows = <<2>>
  /\ utilCall = [fn |-> "none"]
  /\ utilResult = [done |-> FALSE]

(***************************************************************************)
(* The calls a utility scenario draws, and their evaluation.               *)
(***************************************************************************)
ReaderCalls ==
  {[fn |-> f, reply |-> r] :
     f \in {"getPublicBalance", "getLendingAPY", "getLendingRewards"},
     r \in RpcReplies}
  \cup {[fn |-> "getAleoBalance", reply |-> r] :
          r \in {x \in RpcReplies : x.cls # "hash"}}
  \cup {[fn |-> "getLendingTotals", supplied |-> rs, borrowed |-> rb] :
          rs \in {x \in RpcReplies : x.cls # "hash"},
          rb \in {x \in RpcReplies : x.cls # "hash"}}
  \cup {[fn |-> "getPublicLoanDetails", loanId |-> l, reply |-> r] :
          l \in {"valid", "invalid", "nonstring"},
          r \in {x \in RpcReplies : x.cls # "hash"}}
  \cup {[fn |-> "getActiveLends", usdg |-> a, usdq |-> b] :
          a \in WalletReplies(LendRecs), b \in WalletReplies(LendRecs)}
  \cup {[fn |-> "getActiveBorrows", usdg |-> a, usdq |-> b] :
          a \in WalletReplies(LoanRecs), b \in WalletReplies(LoanRecs)}

\* Everything but the utility call under evaluation.
appVars == <<now, budget, ops, chainVars, ledgerVars, posVars, totVars, uiVars,
             calls, submitted, mounted, pollingTimeoutRef, polls, matched>>

\* A reader is awaited and settles.
CallReader ==
  /\ utilCall \in ReaderCalls
  /\ ~utilResult.done
  /\ LET c == utilCall
     IN  utilResult' =
           [done |-> TRUE,
            out |->
              CASE c.fn = "getPublicBalance" -> getPublicBalance(c.reply)
                [] c.fn = "getAleoBalance" -> getAleoBalance(c.reply)
                [] c.fn = "getLendingRewards" -> getLendingRewards(c.reply)
                [] c.fn = "getLendingAPY" -> getLendingAPY(c.reply)
                [] c.fn = "getLendingTotals" ->
                     getLendingTotals(c.supplied, c.borrowed)
                [] c.fn = "getPublicLoanDetails" ->
                     getPublicLoanDetails(c.loanId, c.reply)
                [] c.fn = "getActiveLends" -> getActiveLends(c.usdg, c.usdq)
                [] c.fn = "getActiveBorrows" ->
                     getActiveBorrows(c.usdg, c.usdq)]
  /\ UNCHANGED <<utilCall, appVars>>

\* TokenBalance renders a balance.
CallFormat ==
  /\ utilCall \in FormatCalls
  /\ ~utilResult.done
  /\ utilResult' = [done |-> TRUE,
                    out |-> Return(formatBalance(utilCall.balance,
                                                 utilCall.decimals))]
  /\ UNCHANGED <<utilCall, appVars>>

\* ------------------------------------------------------------------ specs
\* --- Pending operations: lends and borrows are accepted, the chain
\* --- executes them or not, the two polling effects run.
InitPositions == InitEmpty(MaxOps)

NextPositions ==
  \/ Tick
  \/ \E c \in LendCalls : Submit(c)
  \/ \E c \in BorrowCalls : Submit(c)
  \/ \E i \in 1..Len(ops) : ChainExecute(i)
  \/ \E q \in polls : PollReturn(q)
  \/ \E q \in polls : PollError(q)
  \/ \E q \in polls : TimerFire(q)

SpecPositions == InitPositions /\ [][NextPositions]_vars

\* --- Balance ledgers: lend, transfer, wrap and unwrap are accepted, the
\* --- chain executes them, pollTokenBalance runs.
InitLedger == InitEmpty(MaxOps)

\* Inputs of this scenario: lends and transfers of vUSDG, wraps of 1.
LedgerLendCalls     == {c \in LendCalls : c.tok = "vUSDG"}
LedgerTransferCalls == {c \in TransferCalls : c.amt = 1}
LedgerWrapCalls     == {c \in WrapCalls : c.amt = 1}

NextLedger ==
  \/ TickDue
  \/ \E c \in LedgerLendCalls : Submit(c)
  \/ \E c \in LedgerTransferCalls : Submit(c)
  \/ \E c \in LedgerWrapCalls : Submit(c)
  \/ \E i \in 1..Len(ops) : ChainExecute(i)
  \/ \E q \in polls : BalFirstFire(q)
  \/ \E q \in polls : BalTimerFire(q)
  \/ \E q \in polls : BalReturn(q, TRUE)

SpecLedger == InitLedger /\ [][NextLedger]_vars

\* --- Handlers: every handler from the click to the answer of the wallet.
InitHandlers == InitOpen(MaxOps)

AllCalls == LendCalls \cup BorrowCalls \cup TransferCalls \cup WrapCalls
              \cup RedeemCalls \cup RepayCalls

NextHandlers ==
  \/ \E c \in AllCalls : Click(c)
  \/ \E c \in calls : \E m \in StepFailure(c) \cup WalletMsgs :
        FailBefore(c, m)
  \/ \E c \in calls, m \in RejectMsgs : WalletReject(c, m)
  \/ \E c \in calls : WalletAccept(c)
  \/ \E i \in 1..Len(ops) : ChainExecute(i)

SpecHandlers == InitHandlers /\ [][NextHandlers]_vars

\* --- Polling loops: one more transaction of any kind, every loop, the
\* --- sections may unmount.
InitLoops == InitOpen(MaxLoopOps)

LoopStep ==
  \/ \E q \in polls : PollReturn(q) \/ PollError(q)
  \/ \E q \in polls : TimerFire(q)
  \/ \E q \in polls : BalFirstFire(q)
  \/ \E q \in polls : BalTimerFire(q)
  \/ \E q \in polls : BalError(q) \/ \E pubOk \in BOOLEAN : BalReturn(q, pubOk)
  \/ \E q \in polls, ok \in BOOLEAN : FlagReturn(q, ok)
  \/ \E q \in polls : FlagTimerFire(q)
  \/ \E q \in polls, ok \in BOOLEAN : TotReturn(q, ok)
  \/ \E q \in polls : TotTimerFire(q)

NextLoops ==
  \/ TickDue
  \/ TickPast
  \/ \E c \in AllCalls : Submit(c)
  \/ \E i \in 1..Len(ops) : ChainExecute(i)
  \/ Unmount
  \/ LoopStep

SpecLoops == InitLoops /\ [][NextLoops]_vars

\* Every wallet and RPC call returns or rejects, every timer that is due
\* fires, and the clock advances.
SpecLoopsFair ==
  /\ SpecLoops
  /\ WF_vars(LoopStep)
  /\ WF_vars(TickDue)
  /\ WF_vars(TickPast)

(***************************************************************************)
(* Scenario "utilities": one call of a reader or of formatBalance, its     *)
(* arguments and the endpoint's replies drawn from the sets above.         *)
(***************************************************************************)
InitUtils ==
  /\ InitCommon(0)
  /\ ops = <<>>
  /\ reflected = {}
  /\ unspentRecs = {}
  /\ recTs = <<>>
  /\ lends = <<>>
  /\ activeBorrows = <<>>
  /\ utilCall \in ReaderCalls \cup FormatCalls
  /\ utilResult = [done |-> FALSE]

NextUtils == CallReader \/ CallFormat

SpecUtils == InitUtils /\ [][NextUtils]_vars

(***************************************************************************)
(* Scenario "builders": the handlers of lend, borrow, redeem and repay,    *)
(* with every way the endpoints can answer the reads of their builder.     *)
(***************************************************************************)
MaxBuilds == 1   \* clicks of the user in one run (builder scenario)

InitBuilders == InitOpen(MaxBuilds)

\* The replies drawn for the reads of one build; a read the builder of
\* that kind does not make is left answered.
BuildEnvs(k) ==
  {[height |-> h, supplied |-> t[1], borrowed |-> t[2], loanId |-> l,
    details |-> d] :
     h \in {"value", "network", "http", "empty", "nan"},
     t \in {<<"value", "value">>, <<"null", "value">>,
            <<"value", "network">>, <<"null", "null">>},
     l \in IF k = "borrow" THEN {"value", "null"} ELSE {"value"},
     d \in IF k = "repay" THEN {"value", "null"} ELSE {"value"}}

BuilderCalls ==
  UNION {{[c EXCEPT !.env = e] : e \in BuildEnvs(c.kind)} :
           c \in {x \in LendCalls \cup BorrowCalls :
                    x.amt = 1 /\ x.tok = "vUSDG" /\ x.ctok # "vUSDQ"}
                 \cup RedeemCalls \cup RepayCalls}

NextBuilders ==
  \/ \E c \in BuilderCalls : Click(c)
  \/ \E c \in calls : \E m \in StepFailure(c) \cup WalletMsgs :
        FailBefore(c, m)
  \/ \E c \in calls, m \in RejectMsgs : WalletReject(c, m)
  \/ \E c \in calls : WalletAccept(c)
  \/ \E i \in 1..Len(ops) : ChainExecute(i)

SpecBuilders == InitBuilders /\ [][NextBuilders]_vars

\* --- Borrow totals: one borrow, its confirmation poll and the 10-second
\* --- refresh of the totals.
NextTotals ==
  \/ \E c \in BorrowCalls : Submit(c)
  \/ \E i \in 1..Len(ops) : ChainExecute(i)
  \/ \E ok \in BOOLEAN : LoadLendingTotals(ok)
  \/ \E q \in polls, ok \in BOOLEAN : TotReturn(q, ok)
  \/ \E q \in polls : TotTimerFire(q)
  \/ TickDue
  \/ TickPast

SpecTotals == InitLoops /\ [][NextTotals]_vars

\* --- Life of a position: a lend or a borrow is accepted and confirmed by
\* --- its polling effect, then redeemed or repaid, all within the five
\* --- seconds before the first timer of a polling effect is due: the
\* --- wallet answers each poll before or after the chain has executed.
InitLife == InitOpen(MaxOps)

\* Inputs of this scenario: lends of 1 in either lending program, and
\* borrows of 1 against 1 wALEO from the vUSDG row and from the vUSDQ row
\* of AssetsToBorrow.
LifeLendCalls   == {c \in LendCalls : c.amt = 1}
LifeBorrowCalls == {MkCall("borrow", t, 1, "wALEO", 1, NoId) :
                      t \in {"vUSDG", "vUSDQ"}}

NextLife ==
  \/ \E c \in LifeLendCalls : Submit(c)
  \/ \E c \in LifeBorrowCalls : Submit(c)
  \/ \E c \in RedeemCalls : Submit(c)
  \/ \E c \in RepayCalls : Submit(c)
  \/ \E i \in 1..Len(ops) : ChainExecute(i)
  \/ \E q \in polls : PollReturn(q)

SpecLife == InitLife /\ [][NextLife]_vars

\* --- Error messages: every handler from the click to a failure or to the
\* --- answer of the wallet, and the clearing timer of the two sections.
\* The timer of the error effect of section f fires: setError(null).
ErrorTimerFire(f) ==
  /\ mounted
  /\ ~errorTimer[f].isNull
  /\ now >= errorTimer[f].val
  /\ errorMsg' = [errorMsg EXCEPT ![f] = "null"]
  /\ errorTimer' = [errorTimer EXCEPT ![f] = Null]
  /\ UNCHANGED <<utilVars, now, budget, ops, chainVars, ledgerVars, posVars,
                 totVars, inProgress, calls, submitted, mounted,
                 pollingTimeoutRef, polls, matched>>

\* The clock advances once every error timer that is due has fired.
ErrorTick ==
  /\ \A f \in Flags : errorTimer[f].isNull \/ errorTimer[f].val > now
  /\ now + ClockStep <= MaxTime
  /\ now' = now + ClockStep
  /\ UNCHANGED <<utilVars, budget, ops, chainVars, ledgerVars, posVars,
                 totVars, uiVars, calls, submitted, mounted,
                 pollingTimeoutRef, polls, matched>>

InitErrors == InitOpen(MaxOps)

NextErrors ==
  \/ ErrorTick
  \/ \E c \in AllCalls : Click(c)
  \/ \E c \in calls : \E m \in StepFailure(c) \cup WalletMsgs :
        FailBefore(c, m)
  \/ \E c \in calls, m \in RejectMsgs : WalletReject(c, m)
  \/ \E c \in calls : WalletAccept(c)
  \/ \E f \in Flags : ErrorTimerFire(f)

SpecErrors == InitErrors /\ [][NextErrors]_vars

\* ----------------------------------------------------------------- claims
\* C1: at-most-once matching in the pending-lend and pending-borrow polling
\* loops: no record confirms two pending operations and no pending
\* operation is confirmed twice, over any interleaving of polls.
C1_AtMostOnce ==
  \A i, j \in 1..Len(matched) :
     i # j => /\ matched[i][1] # matched[j][1]
              /\ matched[i][2] # matched[j][2]

LendIds == {i \in 1..Len(ops) : ops[i].kind = "lend"}
Confirmed(i) == \E k \in 1..Len(matched) : matched[k][1] = i

\* C2: when the accepted lends have pairwise distinct amounts and all of
\* them have been confirmed, the active-lends list holds exactly one entry
\* per lend: no record id twice, none missing.
C2_ExactlyNActive ==
  ( /\ LendIds # {}
    /\ \A i, j \in LendIds : i # j => ops[i].amt # ops[j].amt
    /\ \A i \in LendIds : Confirmed(i) )
  => /\ Len(lends) = Cardinality(LendIds)
     /\ SeqToSet(lends) = LendIds

AllReflected == reflected = 1..Len(ops)
BalanceLoops == {q \in polls : q.loop = "balance"}
DisplayIsChain(t) ==
  /\ Get(privateBalances, t) = chainPrivate[t]
  /\ Get(publicBalances, t) = chainPublic[t]

\* C3: once every accepted lend, transfer, wrap and unwrap is reflected
\* on-chain and every pollTokenBalance loop has stopped, the displayed
\* private and public balance of each token equal the on-chain values.
C3_BalancesConverge ==
  (ops # <<>> /\ AllReflected /\ BalanceLoops = {})
  => \A t \in Tokens : DisplayIsChain(t)

\* The step is the timeout branch of a pending poll dropping operation p.
TimesOut(s, p) ==
  /\ p \in SeqToSet(Pending(s))
  /\ p \notin SeqToSet(Pending(s)')
  /\ matched' = matched
  /\ Len(ops') = Len(ops)

\* The tokens whose balance the acceptance of operation p mutated.
MutatedTokens(p) ==
  IF ops[p].kind = "borrow" THEN {ops[p].tok, ops[p].ctok} ELSE {ops[p].tok}

\* C4: when a pending lend or borrow times out, the balances that were
\* optimistically mutated for it are replaced by a fresh authoritative
\* read: after the step the displayed balance is the on-chain one.
C4_TimeoutRereads ==
  [][\A s \in Sections : \A p \in 1..Len(ops) :
       TimesOut(s, p) =>
         \A t \in MutatedTokens(p) :
            Get(privateBalances', t) = chainPrivate'[t]]_vars

\* C5: every entry of the displayed private and public ledgers is >= 0.
C5_LedgerNonNegative ==
  /\ \A t \in DOMAIN privateBalances : privateBalances[t] >= 0
  /\ \A t \in DOMAIN publicBalances : publicBalances[t] >= 0

RECURSIVE Count(_, _)
Count(s, x) ==
  IF s = <<>> THEN 0
  ELSE (IF Head(s) = x THEN 1 ELSE 0) + Count(Tail(s), x)

RECURSIVE SumOver(_, _)
SumOver(S, o) ==
  IF S = {} THEN 0
  ELSE LET x == CHOOSE y \in S : TRUE IN o[x].amt + SumOver(S \ {x}, o)

\* totalAmountLent / totalAmountBorrowed
Total(s) == SumAmt(Active(s), ops) + SumAmt(Pending(s), ops)
UnspentOf(s) == {r \in unspentRecs : ops[r].kind = s}

\* C6: a position is never counted twice in the displayed total (active +
\* pending), confirming a pending operation leaves the total unchanged, and
\* once nothing is pending and every accepted transaction is reflected the
\* total is the sum of the unspent positions on-chain.
C6_CountedOnce ==
  [][\A s \in Sections :
       /\ \A i \in 1..Len(ops') :
            Count(Pending(s)', i) + Count(Active(s)', i) <= 1
       /\ (Len(matched') > Len(matched) /\ pendingLends' # pendingLends
             /\ s = "lend") => Total(s)' = Total(s)
       /\ (Len(matched') > Len(matched) /\ pendingBorrows' # pendingBorrows
             /\ s = "borrow") => Total(s)' = Total(s)
       /\ (Pending(s)' = <<>> /\ AllReflected')
            => Total(s)' = SumOver(UnspentOf(s)', ops')]_vars

\* C7: a poll tick of a pending operation that was submitted more than 180
\* seconds ago removes the operation: it never issues another request.
C7_RemovedAfterBudget ==
  [][\A q \in polls :
       ( /\ q.loop = "pending" /\ q.st = "timer" /\ q.isMounted
         /\ now - ops[q.pend].t0 > TIMEOUT_MS )
       => [q EXCEPT !.st = "inflight"] \notin polls']_vars

\* The handler of call c ends in this step without an accepted transaction.
Fails(c) == c \in calls /\ c \notin calls' /\ Len(ops') = Len(ops)

C8_NoTimerPastBudget ==
  \A q \in polls : q.st = "timer" => q.setAt - q.start <= TIMEOUT_MS

\* r is a poll of the loop that q belongs to (for the pending loops: the
\* same run of the effect, with the same captured lists).
SameLoop(q, r) ==
  /\ r.loop = q.loop
  /\ r.start = q.start
  /\ CASE q.loop = "pending" -> /\ r.sec = q.sec /\ r.pend = q.pend
                                /\ r.snapP = q.snapP /\ r.snapA = q.snapA
       [] q.loop = "flag"    -> r.sec = q.sec /\ r.pos = q.pos
       [] OTHER              -> r.id = q.id

\* C8 (amended): in each of the six polling loops a poll that is invoked
\* more than 180 seconds after the loop started issues no request and
\* schedules nothing, and every loop eventually stops.
C8_LoopsStop ==
  /\ [][\A q \in polls :
          (q.st = "timer" /\ now - q.start > TIMEOUT_MS)
          => \A r \in polls' \ polls :
               ~(SameLoop(q, r) /\ r.st # "first")]_vars
  /\ <>[](polls = {})

\* A borrow was accepted and never executed, and its pending-borrow and
\* borrow-totals loops have both stopped.
C8_Witness ==
  /\ mounted
  /\ Len(ops) = Len(HistOps) + 1
  /\ ops[Len(ops)].kind = "borrow"
  /\ ~AllReflected
  /\ now - ops[Len(ops)].t0 > TIMEOUT_MS
  /\ polls = {}

\* C9: once the sections have unmounted no timer of a polling loop remains
\* set, no poll issues a further request and none applies a state update.
C9_QuietAfterUnmount ==
  [][~mounted' =>
       /\ \A q \in polls' : ~Waiting(q)
       /\ ~mounted =>
            /\ \A q \in polls' \ polls : q.st # "inflight"
            /\ UNCHANGED <<ledgerVars, pendingLends, pendingBorrows>>]_vars

(***************************************************************************)
(* C11.  A reader never throws.  A single-value reader returns zero unless *)
(* the reply carries a value; getLendingTotals returns zero for each total *)
(* whose read failed; getPublicLoanDetails returns null unless the         *)
(* identifier is valid and the reply complete; the two list readers return *)
(* the empty list when the wallet rejects or a record cannot be parsed,    *)
(* and getActiveBorrows lists exactly the loans whose details were read.   *)
(* A null result for a balance query yields zero, rendered as "0.0000".    *)
(***************************************************************************)
C11_ListFails(c, name) ==
  \/ c.usdg.cls = "reject"
  \/ c.usdq.cls = "reject"
  \/ \E i \in 1..Len(c.usdg.recs \o c.usdq.recs) :
       LET record == (c.usdg.recs \o c.usdq.recs)[i]
       IN  /\ ~record.spent
           /\ record.recordName = name
           /\ record.data = "malformed"

C11_Default(c, out) ==
  LET Failed(r) == r.cls # "value"
      DetailsRead(record) ==
        /\ ~record.spent
        /\ record.recordName = "LoanPrivate"
        /\ record.data = "ok"
        /\ ~Failed(record.details)
  IN
  CASE c.fn \in {"getPublicBalance", "getAleoBalance", "getLendingRewards"} ->
         Failed(c.reply) => out.val = 0
    [] c.fn = "getLendingAPY" ->
         Failed(c.reply) => out.val = <<0, 100>>
    [] c.fn = "getLendingTotals" ->
         /\ Failed(c.supplied) => out.val.supplied = 0
         /\ Failed(c.borrowed) => out.val.borrowed = 0
    [] c.fn = "getPublicLoanDetails" ->
         (c.loanId # "valid" \/ Failed(c.reply)) => out.val = NoLoan
    [] c.fn = "getActiveLends" ->
         C11_ListFails(c, "avUSDG") => out.val = <<>>
    [] c.fn = "getActiveBorrows" ->
         /\ C11_ListFails(c, "LoanPrivate") => out.val = <<>>
         /\ ~C11_ListFails(c, "LoanPrivate") =>
              Len(out.val) = Len(SelectSeq(c.usdg.recs \o c.usdq.recs,
                                           DetailsRead))

C11_ReadersFailClosed ==
  (utilResult.done /\ utilCall \in ReaderCalls) =>
     /\ ~utilResult.out.thrown
     /\ C11_Default(utilCall, utilResult.out)
     /\ (utilCall.fn = "getPublicBalance" /\ utilCall.reply.cls = "null") =>
          \A d \in FMT_DIGITS..MaxDecimals : formatBalance(utilResult.out.val, d) = ZeroText

\* getPublicBalance has answered a fetch that rejected.
C11_Witness ==
  /\ utilResult.done
  /\ utilCall.fn = "getPublicBalance"
  /\ utilCall.reply.cls = "network"
  /\ utilResult.out = Return(0)

(***************************************************************************)
(* C16.  For a raw balance b >= 0 and d >= 4 decimals, formatBalance(b, d) *)
(* is the decimal digits of floor(b / 10^d), a ".", and the first four     *)
(* digits of b mod 10^d written with d digits (truncated, not rounded);    *)
(* zero gives "0.0000" and 1234567890 with 6 decimals gives "1234.5678".   *)
(***************************************************************************)
RECURSIVE C16_Pow10(_)
C16_Pow10(k) == IF k = 0 THEN 1 ELSE 10 * C16_Pow10(k - 1)

C16_DigitAt(n, k) == DigitChars[((n \div C16_Pow10(k)) % 10) + 1]

C16_FourDigits(n) ==
  <<C16_DigitAt(n, 3), C16_DigitAt(n, 2), C16_DigitAt(n, 1), C16_DigitAt(n, 0)>>

C16_Truncated(b, d) ==
  toString(b \div C16_Pow10(d)) \o <<".">>
    \o C16_FourDigits((b % C16_Pow10(d)) \div C16_Pow10(d - FMT_DIGITS))

C12_NoBuildOnFailedTotals ==
  \A i \in 1..Len(ops) :
    ops[i].kind \in {"lend", "redeem", "borrow", "repay"} =>
      /\ ops[i].reads.supplied = "value"
      /\ ops[i].reads.borrowed = "value"

C14_BuiltFromChain ==
  [][\A c \in calls \ calls' :
       (c.kind \in {"lend", "redeem", "borrow", "repay"}
        /\ submitted' # submitted)
       => LET tx == Build(c).val
          IN  /\ tx.height = BlockHeight
              /\ c.kind # "repay" => tx.supplied = chainTotals.supplied
              /\ c.kind # "redeem" => tx.borrowed = chainTotals.borrowed
              /\ c.kind = "borrow" => tx.loanId = LastLoanId
              /\ c.kind = "repay" => tx.loanId = c.pos]_vars

(***************************************************************************)
(* C15.  Accepting a borrow of amount a adds a to the displayed borrowed   *)
(* total at once.  While the optimistic state of that borrow is held, it   *)
(* is cleared, and the displayed totals replaced by totals read from the   *)
(* chain, only by a read that shows the borrowed total of before the       *)
(* borrow plus a, whether the read is made by the poll of the borrow or by *)
(* the 10-second refresh.                                                  *)
(***************************************************************************)
C15_OptimisticUntilReflected ==
  [][LET accepted == Len(ops') = Len(ops) + 1
         borrows  == {j \in 1..Len(ops) : ops[j].kind = "borrow"}
         i        == CHOOSE j \in borrows : \A k \in borrows : k <= j
         before   == chainTotals.borrowed
                       - (IF i \in reflected THEN ops[i].amt ELSE 0)
     IN  /\ (accepted /\ ops'[Len(ops')].kind = "borrow") =>
              lendingTotals'.borrowed
                = lendingTotals.borrowed + ops'[Len(ops')].amt
         /\ (/\ ~accepted
             /\ mounted'
             /\ ~optimisticAvailableRef.isNull
             /\ ~lastBorrowAmountRef.isNull
             /\ \/ optimisticAvailableRef'.isNull
                \/ lendingTotals' # lendingTotals)
            => chainTotals.borrowed >= before + lastBorrowAmountRef.val
     ]_vars

(***************************************************************************)
(* C17.  For one pending lend or borrow at most one poll awaits its        *)
(* records at any time, also across re-runs of the polling effect.         *)
(***************************************************************************)
C17_OnePollInFlight ==
  \A q, r \in polls :
    ( /\ q.loop = "pending" /\ r.loop = "pending"
      /\ q.st = "inflight" /\ r.st = "inflight"
      /\ q.sec = r.sec /\ q.pend = r.pend )
    => q = r

(***************************************************************************)
(* C18.  A step that is not an acceptance changes a pending list only by   *)
(* removing one entry: the result is the current list without that entry,  *)
(* so no entry added since the poll began is dropped and no entry another  *)
(* poll removed comes back.                                                *)
(***************************************************************************)
C18_OthersUntouched ==
  [][Len(ops') = Len(ops) =>
       /\ pendingLends' # pendingLends =>
            \E p \in SeqToSet(pendingLends) :
              pendingLends' = SeqFilterOut(pendingLends, p)
       /\ pendingBorrows' # pendingBorrows =>
            \E p \in SeqToSet(pendingBorrows) :
              pendingBorrows' = SeqFilterOut(pendingBorrows, p)]_vars

(***************************************************************************)
(* C19.  A record confirms one pending operation only, and among pending   *)
(* operations with the same matching fields it confirms the one submitted  *)
(* first; a poll claims at most one record.                                *)
(***************************************************************************)
C19_EarliestConfirmedOnce ==
  [][matched' # matched =>
       /\ Len(matched') = Len(matched) + 1
       /\ LET p == matched'[Len(matched')][1]
              r == matched'[Len(matched')][2]
              s == IF ops[p].kind = "lend" THEN "lend" ELSE "borrow"
          IN  /\ \A k \in 1..Len(matched) : matched[k][2] # r
              /\ \A p0 \in SeqToSet(Pending(s)) :
                   (p0 < p /\ RecordMatches(s, p0, p)) =>
                     \E k \in 1..Len(matched) : matched[k][1] = p0]_vars

(***************************************************************************)
(* C20.  Each accepted lend takes its amount off the private balance of    *)
(* the lent token, once, and appends one entry to pendingLends; lends      *)
(* accepted one after the other leave their entries in submission order.   *)
(***************************************************************************)
C20_LendDebitsAndAppends ==
  /\ [][\A c \in calls \ calls' :
          (c.kind = "lend" /\ Len(ops') = Len(ops) + 1)
          => /\ privateBalances' =
                  Put(privateBalances, c.tok,
                      Get(privateBalances, c.tok) - c.amt)
             /\ pendingLends' = Append(pendingLends, Len(ops'))]_vars
  /\ [](pendingLends
          = SelectSeq([i \in 1..Len(ops) |-> i],
                      LAMBDA i : i > Len(HistOps) /\ ops[i].kind = "lend"))

\* Two lends of the same token have been accepted one after the other.
C20_Witness ==
  /\ Len(ops) = Len(HistOps) + 2
  /\ pendingLends = <<Len(ops) - 1, Len(ops)>>
  /\ ops[Len(ops)].tok = ops[Len(ops) - 1].tok
  /\ Get(privateBalances, ops[Len(ops)].tok)
       = Get(LoadedPrivate(InitPrivate), ops[Len(ops)].tok)
           - ops[Len(ops) - 1].amt - ops[Len(ops)].amt

(***************************************************************************)
(* C21.  A pending borrow or lend is moved to the active list only by an   *)
(* unspent record that is not already in the active list and whose fields  *)
(* equal those of the pending operation (amount; for a borrow also the     *)
(* collateral amount and the collateral token).                            *)
(***************************************************************************)
C21_MovedOnlyByNewMatch ==
  [][matched' # matched =>
       LET p == matched'[Len(matched')][1]
           r == matched'[Len(matched')][2]
           s == IF ops[p].kind = "lend" THEN "lend" ELSE "borrow"
       IN  /\ r \in unspentRecs
           /\ RecordMatches(s, r, p)
           /\ r \notin SeqToSet(Active(s))]_vars

(***************************************************************************)
(* C22.  When a redeem of a lend position is accepted, the private balance *)
(* of the token the position was lent in grows by the position's amount,   *)
(* the position leaves the active lends, and no other balance entry and    *)
(* no public balance changes.                                              *)
(***************************************************************************)
C22_RedeemCreditsLentToken ==
  [][(Len(ops') = Len(ops) + 1 /\ ops'[Len(ops')].kind = "redeem") =>
       LET p == ops'[Len(ops')].pos
           t == ops[p].tok
       IN  /\ privateBalances' =
                Put(privateBalances, t, Get(privateBalances, t) + ops[p].amt)
           /\ publicBalances' = publicBalances
           /\ lends' = SeqFilterOut(lends, p)]_vars

(***************************************************************************)
(* C29.  A pending lend is never confirmed by the receipt record of a      *)
(* position for which a redeem has been accepted, and such a record is not *)
(* put back into the active lends.                                         *)
(***************************************************************************)
C29_RedeemedNeverMatched ==
  [][matched' # matched =>
       LET r == matched'[Len(matched')][2]
       IN  ~\E i \in 1..Len(ops) : ops[i].kind = "redeem" /\ ops[i].pos = r]_vars

(***************************************************************************)
(* C30.  After a borrow and the repay of that loan have been accepted,     *)
(* every private balance has the value it had before the borrow.           *)
(***************************************************************************)
C30_RepayUndoesBorrow ==
  ( /\ Len(ops) = Len(HistOps) + 2
    /\ ops[Len(ops) - 1].kind = "borrow"
    /\ ops[Len(ops)].kind = "repay"
    /\ ops[Len(ops)].pos = Len(ops) - 1 )
  => \A t \in Tokens :
       Get(privateBalances, t) = Get(LoadedPrivate(InitPrivate), t)

(***************************************************************************)
(* C23.  Once the redeem (repay) of a position has been accepted, the      *)
(* processing flag of that position is cleared only when the consumed      *)
(* record is no longer listed or 180 seconds have passed since the         *)
(* acceptance.                                                             *)
(***************************************************************************)
C23_FlagHeldUntilConfirmed ==
  [][\A k \in SectionFlags :
       LET p == inProgress[k]
       IN  (p # 0 /\ inProgress'[k] = 0) =>
             \A i \in 1..Len(ops') :
               (ops'[i].kind = k /\ ops'[i].pos = p) =>
                 \/ p \notin unspentRecs
                 \/ now - ops'[i].t0 > TIMEOUT_MS]_vars

(***************************************************************************)
(* C24.  An accepted transfer, wrap or unwrap changes two ledger entries   *)
(* only: the source entry by -amount and the destination entry by +amount  *)
(* (public[token] to private[token]; private ALEO to private wALEO; the    *)
(* reverse), so that their sum is unchanged; every other entry of both     *)
(* ledgers keeps its value.                                                *)
(***************************************************************************)
C24_Delta(o, ledger, t) ==
  LET src == CASE o.kind = "transfer" -> <<"public", o.tok>>
               [] o.kind = "wrap"     -> <<"private", "ALEO">>
               [] o.kind = "unwrap"   -> <<"private", "wALEO">>
      dst == CASE o.kind = "transfer" -> <<"private", o.tok>>
               [] o.kind = "wrap"     -> <<"private", "wALEO">>
               [] o.kind = "unwrap"   -> <<"private", "ALEO">>
  IN  IF <<ledger, t>> = src THEN 0 - o.amt
      ELSE IF <<ledger, t>> = dst THEN o.amt ELSE 0

C24_TwoEntriesMove ==
  [][(/\ Len(ops') = Len(ops) + 1
      /\ ops'[Len(ops')].kind \in {"transfer", "wrap", "unwrap"}) =>
       LET o == ops'[Len(ops')]
       IN  \A t \in Tokens :
             /\ Get(privateBalances', t) =
                  Get(privateBalances, t) + C24_Delta(o, "private", t)
             /\ Get(publicBalances', t) =
                  Get(publicBalances, t) + C24_Delta(o, "public", t)]_vars

\* A transfer and then a wrap or an unwrap have been accepted.
C24_Witness ==
  /\ Len(ops) = Len(HistOps) + 2
  /\ ops[Len(ops) - 1].kind = "transfer"
  /\ ops[Len(ops)].kind \in {"wrap", "unwrap"}
  /\ Get(publicBalances, "vUSDG") = InitPublic["vUSDG"] - ops[Len(ops) - 1].amt
  /\ Get(privateBalances, "vUSDG") = InitPrivate["vUSDG"] + ops[Len(ops) - 1].amt
  /\ Get(privateBalances, "ALEO") + Get(privateBalances, "wALEO")
       = InitPrivate["ALEO"] + InitPrivate["wALEO"]
  /\ Get(privateBalances, "ALEO") # InitPrivate["ALEO"]

(***************************************************************************)
(* C25.  Whenever an attempt of pollTokenBalance schedules the next one,   *)
(* the delay is 2 s after attempts 1 to 3, 3 s after attempts 4 to 6 and   *)
(* 5 s after later attempts, also when the attempt ended with an error.    *)
(***************************************************************************)
C25_AdaptiveSchedule ==
  [][\A q \in polls : \A n \in polls' \ polls :
       ( /\ q.loop = "balance" /\ q.st = "inflight" /\ q \notin polls'
         /\ n.loop = "balance" /\ n.st = "timer"
         /\ n.id = q.id /\ n.attempt = q.attempt + 1 )
       => n.due - now = NextInterval(q.attempt)]_vars

\* AssetsToBorrow.getAvailableAmount(LENDING_TOKENS.vUSDG)
getAvailableAmount ==
  IF ~optimisticAvailableRef.isNull THEN optimisticAvailableRef.val
  ELSE lendingTotals.supplied - lendingTotals.borrowed

(***************************************************************************)
(* C26.  When the totals poll of a borrow gives up after 180 seconds, the  *)
(* optimistic available amount is dropped and the available amount shown   *)
(* is supplied - borrowed as the chain reports them.                       *)
(***************************************************************************)
C26_TimeoutAdoptsChain ==
  [][\A q \in polls :
       ( /\ q.loop = "totals" /\ q.st = "timer"
         /\ now >= q.due /\ now - q.start > TIMEOUT_MS
         /\ q \notin polls' /\ mounted )
       => /\ optimisticAvailableRef'.isNull
          /\ getAvailableAmount' = chainTotals.supplied - chainTotals.borrowed]_vars

(***************************************************************************)
(* C27.  Whenever an error message of a section or of a modal is shown, a  *)
(* timer is set that clears it, due at most 3 seconds from now.            *)
(***************************************************************************)
C27_ErrorsSelfClear ==
  \A f \in Flags :
    errorMsg[f] \notin {"null", ""} =>
      /\ ~errorTimer[f].isNull
      /\ errorTimer[f].val <= now + ERROR_MS

(***************************************************************************)
(* C28.  The polling loops of the pending operations have at most one      *)
(* requestRecords call in flight per lending program at any time.          *)
(***************************************************************************)
\* Each poll that awaits the wallet has called requestRecords once for
\* LENDING_PROGRAM_ID and once for LENDING_PROGRAM_ID_USDQ.
C28_InFlight(programId) ==
  {q \in polls : q.loop = "pending" /\ q.st = "inflight"}

C28_OneListingPerProgram ==
  \A programId \in {"zhppy2pajo.aleo", "nafrqqtcxg.aleo"} :
    Cardinality(C28_InFlight(programId)) <= 1
====
